---- MODULE Spec2Model ----
(***************************************************************************)
(* Zenith NPC generator service: the generation-and-storage pipeline       *)
(* (prompt -> oracle -> parse/validate -> store -> response) behind the    *)
(* synchronous HTTP endpoints (app.py) and the Dapr pub/sub handler        *)
(* (dapr_app.py).  The oracle (Azure OpenAI), the store (MongoDB) and the  *)
(* bus (Dapr) are the environment: each call to them returns or fails      *)
(* nondeterministically.                                                    *)
(***************************************************************************)
EXTENDS Integers, Sequences, FiniteSets, TLC

VARIABLES
    store,      \* the MongoDB collection "NPCs": documents in insertion order
    services,   \* dapr_app.py module globals openai_service/storage_service/dapr_client
    hs,         \* per request handling: the handler's position and local variables
    served,     \* number of generation requests accepted so far
    saved       \* history: the NPC objects whose save_npc call returned an id

vars == <<store, services, hs, served, saved>>

----------------------------------------------------------------------------
(* Bounds of the model *)

MaxCount == 2        \* largest "count" of a request
MaxRequests == 1     \* generation requests handled in one behaviour
MaxDeliveries == 2   \* deliveries of one envelope by the bus
MaxPrompts == 2      \* prompts built from one set of preferences
MaxWs == 1           \* whitespace runs around a fence or a payload

Handlers == {"h1"}

(* Worker threads of one process handling requests at the same time *)
Threads == {"t1", "t2"}

(* Python's None / Optional[T]: <<>> is None, <<x>> is a value x *)
None == <<>>
Some(x) == <<x>>

----------------------------------------------------------------------------
(* Schema: models/npc.py *)

Fields ==
    {"Name", "Age", "Species", "PhysicalDescription",
     "PersonalityDescription", "ResidentDistrict"}

(* JSON scalars, written with their JSON type: s: string, i: integer *)
JsonStrings == {"s:Ann", "s:Bo", "s:Elf", "s:30"}
JsonInts == {"i:30", "i:41"}
JsonNull == "null"

(* int("30") succeeds, int("Ann") raises *)
IntOfStr(v) == IF v = "s:30" THEN Some("i:30") ELSE None

(* A str field declared Optional[str]: null passes *)
ValidateStr_AllowNull(v) ==
    IF v \in JsonStrings \/ v = JsonNull THEN Some(v) ELSE None

(* pydantic field validation: str fields take only str; int fields take   *)
(* an int or a numeric string; None is rejected by both                   *)
ValidateStr(v) == IF v \in JsonStrings THEN Some(v) ELSE None

ValidateInt(v) ==
    IF v \in JsonInts THEN Some(v)
    ELSE IF v \in JsonStrings THEN IntOfStr(v)
    ELSE None

ValidateField(f, v) == IF f = "Age" THEN ValidateInt(v) ELSE ValidateStr(v)

(* NPC constructor from the parsed dict: every field required and valid,  *)
(* extra keys ignored; None stands for the ValidationError                *)
NPC(npc_data) ==
    IF \A f \in Fields :
          f \in DOMAIN npc_data /\ ValidateField(f, npc_data[f]) # None
    THEN Some([f \in Fields \cup {"class"} |->
                 IF f = "class" THEN "PydanticNPC"
                 ELSE ValidateField(f, npc_data[f])[1]])
    ELSE None

(* npc.model_dump(): the dict of the six declared fields *)
model_dump(npc) == [f \in Fields |-> npc[f]]

(* NPCGenerationRequest: the three optional preferences *)
NoPrefs ==
    [species_preference |-> None, district_preference |-> None,
     age_range |-> None]

PrefChoices ==
    {NoPrefs,
     [species_preference |-> Some("Human"), district_preference |-> None,
      age_range |-> None],
     [species_preference |-> Some(""), district_preference |-> Some("Docks"),
      age_range |-> Some("20-30")]}

----------------------------------------------------------------------------
(* Prompt builder: AzureOpenAIService.generate_npc_prompt *)

(* Python truthiness of an Optional[str]: None and "" are falsy *)
Truthy(p) == p # None /\ p[1] # ""

PromptLine(kind, value) == [line |-> kind, value |-> value]

(* The constraint lines appended district first *)
generate_npc_prompt_DistrictFirst(species_preference, district_preference, age_range) ==
    <<PromptLine("base", "")>>
    \o (IF Truthy(district_preference)
        THEN <<PromptLine("Resident District should be", district_preference[1])>>
        ELSE <<>>)
    \o (IF Truthy(species_preference)
        THEN <<PromptLine("Species should be", species_preference[1])>>
        ELSE <<>>)
    \o (IF Truthy(age_range)
        THEN <<PromptLine("Age should be in range", age_range[1])>>
        ELSE <<>>)
    \o <<PromptLine("Return ONLY the JSON object", "")>>

generate_npc_prompt(species_preference, district_preference, age_range) ==
    <<PromptLine("base", "")>>
    \o (IF Truthy(species_preference)
        THEN <<PromptLine("Species should be", species_preference[1])>>
        ELSE <<>>)
    \o (IF Truthy(district_preference)
        THEN <<PromptLine("Resident District should be", district_preference[1])>>
        ELSE <<>>)
    \o (IF Truthy(age_range)
        THEN <<PromptLine("Age should be in range", age_range[1])>>
        ELSE <<>>)
    \o <<PromptLine("Return ONLY the JSON object", "")>>

----------------------------------------------------------------------------
(* The oracle's reply and its parsing: AzureOpenAIService.generate_npc     *)

(* The reply text is a sequence of tokens: "ws" whitespace, "fence" the    *)
(* three backticks, "json" the four characters of the language tag json,   *)
(* "tag" a language tag that does not begin with them (python, JSON),      *)
(* "doc" a complete JSON text (v is its value), "text" prose that is no    *)
(* JSON.                                                                   *)
NoValue == [type |-> "none", members |-> <<>>]
Tok(t) == [t |-> t, v |-> NoValue]
Doc(members) == [t |-> "doc", v |-> [type |-> "object", members |-> members]]
ArrayDoc == [t |-> "doc", v |-> [type |-> "array", members |-> <<>>]]

AnnData ==
    [Name |-> "s:Ann", Age |-> "i:30", Species |-> "s:Elf",
     PhysicalDescription |-> "s:Ann", PersonalityDescription |-> "s:Bo",
     ResidentDistrict |-> "s:Bo"]

BoData == [AnnData EXCEPT !.Name = "s:Bo", !.Age = "i:41"]

Without(d, key) == [k \in DOMAIN d \ {key} |-> d[k]]

(* str.strip(): leading and trailing whitespace removed *)
RECURSIVE LStrip(_)
LStrip(c) ==
    IF c # <<>> /\ c[1].t = "ws" THEN LStrip(Tail(c)) ELSE c

RECURSIVE RStrip(_)
RStrip(c) ==
    IF c # <<>> /\ c[Len(c)].t = "ws"
    THEN RStrip(SubSeq(c, 1, Len(c) - 1))
    ELSE c

Strip(c) == RStrip(LStrip(c))

(* content[3:]: the backticks dropped, the language tag left *)
DropJsonFence_ThreeChars(c) == SubSeq(c, 2, Len(c))

(* content.startswith("```json") / content[7:] *)
StartsWithJsonFence(c) == Len(c) >= 2 /\ c[1].t = "fence" /\ c[2].t = "json"
DropJsonFence(c) == SubSeq(c, 3, Len(c))

(* content.endswith("```") / content[:-3] *)
EndsWithFence(c) == Len(c) >= 1 /\ c[Len(c)].t = "fence"
DropEndFence(c) == SubSeq(c, 1, Len(c) - 1)

StripFences(content) ==
    LET c1 == Strip(content)
        c2 == IF StartsWithJsonFence(c1) THEN DropJsonFence(c1) ELSE c1
        c3 == IF EndsWithFence(c2) THEN DropEndFence(c2) ELSE c2
    IN  Strip(c3)

(* json.loads: one JSON text, whitespace allowed around it; None stands    *)
(* for the JSONDecodeError                                                  *)
JsonLoads(c) ==
    LET s == Strip(c)
    IN  IF Len(s) = 1 /\ s[1].t = "doc" THEN Some(s[1].v) ELSE None

(* What a call gives its caller: a returned value, or an exception *)
Returned(value) == [raised |-> FALSE, value |-> value]
Raised(message) == [raised |-> TRUE, value |-> [error |-> message]]

(* What the oracle may do on one call: return a completion, or raise; the  *)
(* exception is a json.JSONDecodeError (OracleJsonFault) or any other      *)
Reply(content) == [raises |-> FALSE, content |-> content]
OracleFault == [raises |-> TRUE, content |-> <<>>]
OracleJsonFault ==
    [raises |-> TRUE, content |-> <<>>, exception |-> "JSONDecodeError"]

OracleReplies ==
    {OracleFault,
     OracleJsonFault,
     Reply(<<Doc(AnnData)>>),
     Reply(<<Doc(BoData)>>),
     Reply(<<Tok("fence"), Tok("json"), Tok("ws"), Doc(AnnData), Tok("ws"),
             Tok("fence"), Tok("ws")>>),
     Reply(<<Tok("ws"), Doc([AnnData EXCEPT !.Age = "s:30"]), Tok("ws")>>),
     Reply(<<Doc(BoData @@ [Mood |-> "s:Ann"])>>),
     Reply(<<Doc(Without(AnnData, "Species"))>>),
     Reply(<<Doc([AnnData EXCEPT !.ResidentDistrict = JsonNull])>>),
     Reply(<<Doc([AnnData EXCEPT !.Name = "i:41"])>>),
     Reply(<<Doc([AnnData EXCEPT !.Age = "s:Ann"])>>),
     Reply(<<ArrayDoc>>),
     Reply(<<Tok("text")>>),
     Reply(<<Tok("text"), Doc(AnnData)>>),
     Reply(<<Tok("fence"), Tok("ws"), Doc(AnnData), Tok("fence")>>),
     Reply(<<>>)}

(* str(e) of the UnboundLocalError that reading the local content raises   *)
(* in the JSONDecodeError handler when the oracle call itself raised       *)
UnboundContent ==
    "cannot access local variable 'content' where it is not associated with a value"

(* generate_npc after the oracle call: it returns the NPC, or None on a    *)
(* failure; when the oracle call raised a JSONDecodeError, its handler     *)
(* logs content, which was never assigned, and the UnboundLocalError       *)
(* leaves generate_npc                                                     *)
generate_npc(reply) ==
    IF reply = OracleJsonFault THEN Raised(UnboundContent)
    ELSE IF reply.raises THEN Returned(None)
    ELSE LET npc_data == JsonLoads(StripFences(reply.content))
         IN  IF npc_data = None THEN Returned(None)
             ELSE IF npc_data[1].type # "object" THEN Returned(None)
             ELSE Returned(NPC(npc_data[1].members))

----------------------------------------------------------------------------
(* Persistence: services/npc_storage_service.py and                        *)
(* services/npc_storage_service_pb.py over one MongoDB collection          *)

(* The ObjectId the driver gives the next inserted document, and str() of it *)
NewObjectId(st) == Len(st) + 1
ObjectIdStr(oid) == <<"oid", oid>>

(* datetime.now() as logical time: the number of documents written so far. *)
(* A storage call reads it before it calls insert_one, so other writers    *)
(* may insert between the reading and the insert.                          *)
Now(st) == Len(st)
IsoFormat(t) == <<"iso", t>>

(* collection.insert_one(doc): the document gets its _id and is appended *)
InsertOne(st, doc) == Append(st, doc @@ ("_id" :> NewObjectId(st)))

StoreError == "StoreError"

(* NPCStorageService._npc_to_dict (pb variant): dispatch on the record's   *)
(* class; None stands for the ValueError of an unsupported type            *)
npc_to_dict(npc) ==
    IF npc["class"] = "PydanticNPC" THEN Some(model_dump(npc))
    ELSE IF npc["class"] = "ProtoNPC"
    THEN Some([f \in Fields |->
                 CASE f = "Name" -> npc["name"]
                   [] f = "Age" -> npc["age"]
                   [] f = "Species" -> npc["species"]
                   [] f = "PhysicalDescription" -> npc["physical_description"]
                   [] f = "PersonalityDescription" -> npc["personality_description"]
                   [] f = "ResidentDistrict" -> npc["resident_district"]])
    ELSE None

(* The individual-kind document save_npc builds from the record's dict and *)
(* its reading of the clock                                                *)
IndividualDoc(npc_dict, now) ==
    npc_dict @@ ("_created_at" :> now) @@ ("_type" :> "individual")

(* save_npc raising after the insert went through *)
save_npc_RaisesAfterInsert(st, npc, now, accepted) ==
    IF accepted
    THEN [store |-> InsertOne(st, IndividualDoc(model_dump(npc), now)),
          npc_id |-> None]
    ELSE [store |-> st, npc_id |-> None]

(* save_npc: npc_id is the new id, or None when the call raised; now is    *)
(* what datetime.now() gave the call, accepted the store's answer to its   *)
(* insert_one                                                              *)
save_npc(st, npc, now, accepted) ==
    IF accepted
    THEN [store |-> InsertOne(st, IndividualDoc(model_dump(npc), now)),
          npc_id |-> Some(ObjectIdStr(NewObjectId(st)))]
    ELSE [store |-> st, npc_id |-> None]

save_npc_pb(st, npc, now, accepted) ==
    IF npc_to_dict(npc) # None /\ accepted
    THEN [store |-> InsertOne(st, IndividualDoc(npc_to_dict(npc)[1], now)),
          npc_id |-> Some(ObjectIdStr(NewObjectId(st)))]
    ELSE [store |-> st, npc_id |-> None]

(* The collection-kind document of save_npcs_collection; clock holds the   *)
(* two readings of datetime.now() the call made, in order                  *)
CollectionDoc(npc_dicts, clock) ==
    [_created_at |-> clock[1], _type |-> "collection",
     generated_at |-> IsoFormat(clock[2]), count |-> Len(npc_dicts),
     npcs |-> npc_dicts]

save_npcs_collection(st, npcs, clock, accepted) ==
    IF accepted
    THEN [store |-> InsertOne(st,
                      CollectionDoc([j \in 1..Len(npcs) |-> model_dump(npcs[j])],
                                    clock)),
          collection_id |-> Some(ObjectIdStr(NewObjectId(st)))]
    ELSE [store |-> st, collection_id |-> None]

save_npcs_collection_pb(st, npcs, clock, accepted) ==
    IF (\A j \in 1..Len(npcs) : npc_to_dict(npcs[j]) # None) /\ accepted
    THEN [store |-> InsertOne(st,
                      CollectionDoc([j \in 1..Len(npcs) |-> npc_to_dict(npcs[j])[1]],
                                    clock)),
          collection_id |-> Some(ObjectIdStr(NewObjectId(st)))]
    ELSE [store |-> st, collection_id |-> None]

(* find() without its filter *)
FindIndividual_Unfiltered(st) == st

(* collection.find({"_type": "individual"}): the matching documents *)
FindIndividual(st) == SelectSeq(st, LAMBDA d : d["_type"] = "individual")

(* doc.pop(key, None) *)
Pop(doc, key) == [x \in DOMAIN doc \ {key} |-> doc[x]]

(* The loop body forgetting to pop _type *)
StripMetadata_KeepsType(doc) == Pop(Pop(doc, "_id"), "_created_at")

StripMetadata(doc) == Pop(Pop(Pop(doc, "_id"), "_created_at"), "_type")

(* Where a read of st can fail: on the query itself, or on fetching a      *)
(* further document after some were yielded                                *)
CanFailAfter(st, fail_after) ==
    IF fail_after = None THEN TRUE
    ELSE fail_after[1] = 0 \/ fail_after[1] < Len(FindIndividual(st))

(* get_all_npcs: the documents appended to npcs before the loop ended.     *)
(* fail_after is None when the read never fails, Some(n) when the cursor   *)
(* raises after having yielded n documents (0: the query itself fails)     *)
get_all_npcs(st, fail_after) ==
    LET cursor == FindIndividual(st)
        yielded == IF fail_after = None THEN Len(cursor) ELSE fail_after[1]
    IN  [j \in 1..yielded |-> StripMetadata(cursor[j])]

(* collection.count_documents(filter): filter None is {}, Some(type) is    *)
(* {"_type": type}                                                         *)
CountDocuments(st, filter) ==
    IF filter = None THEN Len(st)
    ELSE Len(SelectSeq(st, LAMBDA d : d["_type"] = filter[1]))

(* The count queries of get_storage_stats, in the order they are issued *)
StatsQueries == <<None, Some("individual"), Some("collection")>>

(* The dict get_storage_stats returns from its three counts *)
StatsDict(counts) ==
    [total_documents |-> counts[1], individual_npcs |-> counts[2],
     collection_documents |-> counts[3],
     database |-> "zenith_npc_db", collection |-> "NPCs"]

(* get_storage_stats without its try/except *)
get_storage_stats_Propagates(counts, failed) ==
    IF failed THEN Raised(StoreError) ELSE Returned(StatsDict(counts))

(* get_storage_stats once its count_documents calls are over: counts is    *)
(* what the calls returned, failed says that the last one made raised      *)
get_storage_stats(counts, failed) ==
    IF failed THEN Returned([error |-> StoreError])
    ELSE Returned(StatsDict(counts))

----------------------------------------------------------------------------
(* Responses *)

HttpResponse(status, body) == [status |-> status, body |-> body]

(* An exception leaving the view function with no handler registered: the  *)
(* framework's own error page                                              *)
HttpError_Unstructured(message) == HttpResponse(500, [html |-> message])

HttpError(message) == HttpResponse(500, [error |-> message])

(* The conversion filling the two descriptions the wrong way round *)
ToProtoNPC_DescriptionsSwapped(npc) ==
    [class |-> "ProtoNPC", name |-> npc.Name, age |-> npc.Age,
     species |-> npc.Species, physical_description |-> npc.PersonalityDescription,
     personality_description |-> npc.PhysicalDescription,
     resident_district |-> npc.ResidentDistrict]

(* dapr_app.py: the Pydantic NPC converted to the protobuf NPC *)
ToProtoNPC(npc) ==
    [class |-> "ProtoNPC", name |-> npc.Name, age |-> npc.Age,
     species |-> npc.Species, physical_description |-> npc.PhysicalDescription,
     personality_description |-> npc.PersonalityDescription,
     resident_district |-> npc.ResidentDistrict]

(* A success response counting the stored records instead of the          *)
(* generated ones                                                          *)
SuccessResponse_CountsStored(npcs, requested, individual_ids, collection_id) ==
    [success |-> TRUE,
     npcs |-> [j \in 1..Len(npcs) |-> ToProtoNPC(npcs[j])],
     generated_count |-> Len(individual_ids), requested_count |-> requested,
     individual_files |-> individual_ids, collection_file |-> collection_id,
     error |-> None]

(* NPCGenerationResponse messages built by the handler *)
SuccessResponse(npcs, requested, individual_ids, collection_id) ==
    [success |-> TRUE,
     npcs |-> [j \in 1..Len(npcs) |-> ToProtoNPC(npcs[j])],
     generated_count |-> Len(npcs), requested_count |-> requested,
     individual_files |-> individual_ids, collection_file |-> collection_id,
     error |-> None]

FailureResponse(requested, message) ==
    [success |-> FALSE, npcs |-> <<>>, generated_count |-> 0,
     requested_count |-> requested, individual_files |-> <<>>,
     collection_file |-> None, error |-> Some(message)]

(* publish_event called with the default response topic *)
PublishAttempt_DefaultTopic(topic, request_id, response, delivered) ==
    [topic_name |-> "npc-generation-response",
     data |-> [request_id |-> request_id, response |-> response],
     delivered |-> delivered]

(* One dapr_client.publish_event call: the topic, the                      *)
(* NPCGenerationTopicResponse, and whether the bus took it                 *)
PublishAttempt(topic, request_id, response, delivered) ==
    [topic_name |-> topic,
     data |-> [request_id |-> request_id, response |-> response],
     delivered |-> delivered]

----------------------------------------------------------------------------
(* Inbound bus events and their decoding (dapr_app.py) *)

RESPONSE_TOPIC == "npc-generation-response"
Uuid4 == "uuid4"

GenerationRequest(count, prefs) == [count |-> count, prefs |-> prefs]

TopicMessage(request_id, response_topic, request) ==
    [request_id |-> request_id, response_topic |-> response_topic,
     request |-> request]

ProtoEvent(message) == [encoding |-> "protobuf", message |-> message]
JsonEvent(json_data) == [encoding |-> "json", message |-> json_data]
GarbageEvent == [encoding |-> "garbage", message |-> <<>>]

(* A body that ParseFromString accepts (message is what it reads) and that *)
(* is JSON text as well (json_data is what get_json would read)            *)
BothEvent(message, json_data) ==
    [encoding |-> "both", message |-> [protobuf |-> message, json |-> json_data]]

(* dict.get(key, default) *)
Get(d, key, default) == IF key \in DOMAIN d THEN d[key] ELSE default

(* The JSON fallback leaving an absent count at the protobuf default *)
FromJson_CountDefaultZero(json_data) ==
    TopicMessage(
        Get(json_data, "request_id", Uuid4),
        Get(json_data, "response_topic", RESPONSE_TOPIC),
        GenerationRequest(
            Get(json_data, "count", 0),
            [p \in {"species_preference", "district_preference", "age_range"} |->
                IF p \in DOMAIN json_data THEN Some(json_data[p]) ELSE None]))

(* The JSON fallback: the topic message built from the JSON body *)
FromJson(json_data) ==
    TopicMessage(
        Get(json_data, "request_id", Uuid4),
        Get(json_data, "response_topic", RESPONSE_TOPIC),
        GenerationRequest(
            Get(json_data, "count", 1),
            [p \in {"species_preference", "district_preference", "age_range"} |->
                IF p \in DOMAIN json_data THEN Some(json_data[p]) ELSE None]))

(* A body that is neither form read as an empty JSON object *)
Decode_GarbageAsEmptyJson(event) ==
    IF event.encoding = "protobuf" THEN Some(event.message)
    ELSE IF event.encoding = "both" THEN Some(event.message.protobuf)
    ELSE IF event.encoding = "json" THEN Some(FromJson(event.message))
    ELSE Some(FromJson(<<>>))

(* The JSON reading tried before the protobuf one *)
Decode_JsonFirst(event) ==
    IF event.encoding = "json" THEN Some(FromJson(event.message))
    ELSE IF event.encoding = "both" THEN Some(FromJson(event.message.json))
    ELSE IF event.encoding = "protobuf" THEN Some(event.message)
    ELSE None

(* Protobuf first, JSON when ParseFromString raises; None when both fail *)
Decode(event) ==
    IF event.encoding = "protobuf" THEN Some(event.message)
    ELSE IF event.encoding = "both" THEN Some(event.message.protobuf)
    ELSE IF event.encoding = "json" THEN Some(FromJson(event.message))
    ELSE None

----------------------------------------------------------------------------
(* Lazily initialised service handles: dapr_app.get_services *)

(* The globals in the order get_services tests and assigns them *)
ServiceNames == <<"openai_service", "storage_service", "dapr_client">>

NoServices ==
    [openai_service |-> FALSE, storage_service |-> FALSE, dapr_client |-> FALSE]

----------------------------------------------------------------------------
(* Request handlings *)

IdleState ==
    [pc |-> "idle", handler |-> "none", count |-> 0, prefs |-> NoPrefs,
     i |-> 0, npcs |-> <<>>, k |-> 0, individual_ids |-> <<>>,
     collection_id |-> None, request_id |-> None, response_topic |-> None,
     pending |-> None, error |-> None, response |-> None,
     published |-> <<>>, oracle_calls |-> <<>>, oracle_misses |-> 0,
     store_calls |-> <<>>, event |-> None, history |-> <<>>,
     prompts |-> <<>>, reply |-> None, handle |-> 0, counts |-> <<>>,
     clock |-> <<>>]

(* The handler instance is between requests *)
Ready(h) == hs[h].pc \in {"idle", "done"}

(* ... and another generation request fits the bound *)
Free(h) == Ready(h) /\ served < MaxRequests

IsAsync(s) == s.handler = "npc_generation_request_handler"

Prompt(s) ==
    generate_npc_prompt(s.prefs.species_preference, s.prefs.district_preference,
                        s.prefs.age_range)

StoreCall(op, ok) == [op |-> op, ok |-> ok]

(* What the handler does once generation has returned npcs *)
AfterGenerate(s, npcs) ==
    IF npcs # <<>>
    THEN [s EXCEPT !.npcs = npcs, !.pc = "save_npcs_batch"]
    ELSE IF IsAsync(s)
    THEN [s EXCEPT !.npcs = npcs, !.pc = "publish",
                   !.pending = Some(FailureResponse(s.count,
                                                    "Failed to generate any NPCs"))]
    ELSE [s EXCEPT !.npcs = npcs, !.pc = "done",
                   !.response = Some(HttpError("Failed to generate any NPCs"))]

(* The asynchronous handler saving a collection whatever the batch size *)
AfterBatch_AlwaysCollection(s, individual_ids) ==
    [s EXCEPT !.individual_ids = individual_ids, !.pc = "save_npcs_collection"]

(* What the handler does once save_npcs_batch has returned individual_ids *)
AfterBatch(s, individual_ids) ==
    IF IsAsync(s) /\ ~(Len(s.npcs) > 1)
    THEN [s EXCEPT !.individual_ids = individual_ids, !.pc = "publish",
                   !.pending = Some(SuccessResponse(s.npcs, s.count,
                                                    individual_ids, None))]
    ELSE [s EXCEPT !.individual_ids = individual_ids,
                   !.pc = "save_npcs_collection"]

(* The failure of save_npcs_collection swallowed by the handler *)
AfterCollection_Swallowed(s, collection_id) ==
    IF IsAsync(s)
    THEN [s EXCEPT !.collection_id = collection_id, !.pc = "publish",
                   !.pending = Some(SuccessResponse(s.npcs, s.count,
                                                    s.individual_ids, collection_id))]
    ELSE [s EXCEPT !.collection_id = collection_id, !.pc = "done",
                   !.response = Some(HttpResponse(200,
                       [success |-> TRUE, generated_count |-> Len(s.npcs),
                        requested_count |-> s.count,
                        npcs |-> [j \in 1..Len(s.npcs) |-> model_dump(s.npcs[j])],
                        individual_files |-> s.individual_ids,
                        collection_file |-> collection_id]))]

(* The except path of the asynchronous handler without its notification *)
AfterCollection_NoNotice(s, collection_id) ==
    IF collection_id = None
    THEN [s EXCEPT !.pc = "done", !.error = Some(StoreError),
                   !.response = Some(HttpError(StoreError))]
    ELSE IF IsAsync(s)
    THEN [s EXCEPT !.collection_id = collection_id, !.pc = "publish",
                   !.pending = Some(SuccessResponse(s.npcs, s.count,
                                                    s.individual_ids, collection_id))]
    ELSE [s EXCEPT !.collection_id = collection_id, !.pc = "done",
                   !.response = Some(HttpResponse(200,
                       [success |-> TRUE, generated_count |-> Len(s.npcs),
                        requested_count |-> s.count,
                        npcs |-> [j \in 1..Len(s.npcs) |-> model_dump(s.npcs[j])],
                        individual_files |-> s.individual_ids,
                        collection_file |-> collection_id[1]]))]

(* ... and once save_npcs_collection has returned or raised *)
AfterCollection(s, collection_id) ==
    IF collection_id = None
    THEN IF IsAsync(s)
         THEN [s EXCEPT !.pc = "publish_error", !.error = Some(StoreError)]
         ELSE [s EXCEPT !.pc = "done", !.response = Some(HttpError(StoreError))]
    ELSE IF IsAsync(s)
    THEN [s EXCEPT !.collection_id = collection_id, !.pc = "publish",
                   !.pending = Some(SuccessResponse(s.npcs, s.count,
                                                    s.individual_ids, collection_id))]
    ELSE [s EXCEPT !.collection_id = collection_id, !.pc = "done",
                   !.response = Some(HttpResponse(200,
                       [success |-> TRUE, generated_count |-> Len(s.npcs),
                        requested_count |-> s.count,
                        npcs |-> [j \in 1..Len(s.npcs) |-> model_dump(s.npcs[j])],
                        individual_files |-> s.individual_ids,
                        collection_file |-> collection_id[1]]))]

(* An exception with this message leaves generation: the records of the    *)
(* unfinished generate_multiple_npcs call go with its frame, and the       *)
(* handler's except block answers (app.py 66-68, 104-106), after the       *)
(* notification of dapr_app.py 219-238 on the bus side                     *)
GenerationRaised(s, message) ==
    IF IsAsync(s)
    THEN [s EXCEPT !.npcs = <<>>, !.pc = "publish_error",
                   !.error = Some(message)]
    ELSE [s EXCEPT !.npcs = <<>>, !.pc = "done", !.error = Some(message),
                   !.response = Some(HttpError(message))]

(* generate_multiple_npcs entered with count: the loop runs, or is empty *)
EnterGenerateMultiple(s) ==
    IF s.count > 0 THEN [s EXCEPT !.pc = "generate_multiple_npcs"]
    ELSE AfterGenerate(s, <<>>)

Init ==
    /\ store = <<>>
    /\ services = NoServices
    /\ hs = [h \in Handlers |-> IdleState]
    /\ served = 0
    /\ saved = <<>>

(* POST /generate-npc arrives: app.generate_single_npc up to the oracle call *)
HttpGenerateSingle(h, prefs) ==
    /\ Free(h)
    /\ hs' = [hs EXCEPT ![h] =
                [IdleState EXCEPT !.pc = "generate_npc",
                                  !.handler = "generate_single_npc",
                                  !.count = 1, !.prefs = prefs]]
    /\ served' = served + 1
    /\ UNCHANGED <<store, services, saved>>

(* POST /generate-npcs arrives: app.generate_multiple_npcs up to the loop *)
HttpGenerateMultiple(h, count, prefs) ==
    /\ Free(h)
    /\ hs' = [hs EXCEPT ![h] =
                EnterGenerateMultiple(
                    [IdleState EXCEPT !.handler = "generate_multiple_npcs",
                                      !.count = count, !.prefs = prefs])]
    /\ served' = served + 1
    /\ UNCHANGED <<store, services, saved>>

(* GET /npcs: app.get_all_npcs, the whole read *)
HttpGetAllNpcs(h, fail_after) ==
    /\ Ready(h)
    /\ CanFailAfter(store, fail_after)
    /\ LET npcs == get_all_npcs(store, fail_after)
       IN  hs' = [hs EXCEPT ![h] =
                    [IdleState EXCEPT
                        !.pc = "done", !.handler = "get_all_npcs",
                        !.store_calls = <<StoreCall("find", fail_after = None)>>,
                        !.response = Some(HttpResponse(200,
                            [success |-> TRUE, count |-> Len(npcs),
                             npcs |-> npcs]))]]
    /\ UNCHANGED <<store, services, served, saved>>

(* str(e) of the exception a service constructor raises *)
InitError(failing) ==
    CASE failing = "openai_service" -> "InitError: AzureOpenAIService"
      [] failing = "storage_service" -> "InitError: NPCStorageService"
      [] failing = "dapr_client" -> "InitError: DaprClient"

(* npc_generation_request_handler from the end of get_services up to      *)
(* generation, for the request body event: get_services raised in the      *)
(* constructor of the handle failing, or returned ("none"); s0 holds the   *)
(* locals of the handling                                                  *)
StartHandling(s0, event, failing) ==
    LET decoded == Decode(event)
    IN  IF failing # "none"
        THEN [s0 EXCEPT !.pc = "done", !.error = Some(InitError(failing)),
                        !.response = Some(HttpError(InitError(failing)))]
        ELSE IF decoded = None
        THEN [s0 EXCEPT !.pc = "done", !.error = Some("DecodeError"),
                        !.response = Some(HttpError("DecodeError"))]
        ELSE LET m == decoded[1]
                 s1 == [s0 EXCEPT
                          !.request_id = Some(m.request_id),
                          !.response_topic = Some(m.response_topic),
                          !.count = m.request.count,
                          !.prefs = m.request.prefs]
             IN  IF m.request.count = 1
                 THEN [s1 EXCEPT !.pc = "generate_npc"]
                 ELSE EnterGenerateMultiple(s1)

(* GET /storage-stats arrives: app.get_storage_stats up to the first      *)
(* count_documents call of NPCStorageService.get_storage_stats; counts     *)
(* holds what the calls made so far returned                               *)
HttpGetStorageStats(h) ==
    /\ Ready(h)
    /\ hs' = [hs EXCEPT ![h] =
                [IdleState EXCEPT !.pc = "count_documents",
                                  !.handler = "get_storage_stats"]]
    /\ UNCHANGED <<store, services, served, saved>>

(* The next count_documents call of get_storage_stats: it returns the      *)
(* count of the store as it is now, or raises; after the third, or the     *)
(* raise, get_storage_stats returns and the view function answers          *)
CountStep(h, ok) ==
    /\ hs[h].pc = "count_documents"
    /\ LET s == hs[h]
           query == StatsQueries[Len(s.counts) + 1]
           counts == IF ok THEN Append(s.counts, CountDocuments(store, query))
                     ELSE s.counts
           calls == Append(s.store_calls, StoreCall("count_documents", ok))
       IN  hs' = [hs EXCEPT ![h] =
                 IF ok /\ Len(counts) < Len(StatsQueries)
                 THEN [s EXCEPT !.counts = counts, !.store_calls = calls]
                 ELSE LET r == get_storage_stats(counts, ~ok)
                      IN  [s EXCEPT
                             !.pc = "done", !.counts = counts,
                             !.store_calls = calls,
                             !.response =
                                 IF r.raised THEN Some(HttpError(r.value.error))
                                 ELSE Some(HttpResponse(200,
                                         [success |-> TRUE, stats |-> r.value]))]]
    /\ UNCHANGED <<store, services, served, saved>>

(* A request to a route the app does not define: the 404 error handler *)
HttpNotFound(h) ==
    /\ Ready(h)
    /\ hs' = [hs EXCEPT ![h] =
                [IdleState EXCEPT
                    !.pc = "done", !.handler = "not_found",
                    !.response = Some(HttpResponse(404,
                                        [error |-> "Endpoint not found"]))]]
    /\ UNCHANGED <<store, services, served, saved>>

(* The locals of npc_generation_request_handler as it enters get_services: *)
(* handle is the position in ServiceNames of the global the handling is    *)
(* at, history what the earlier deliveries of the envelope did             *)
Received(event, history) ==
    [IdleState EXCEPT !.pc = "get_services",
                      !.handler = "npc_generation_request_handler",
                      !.event = Some(event), !.handle = 1,
                      !.history = history]

(* A bus event arrives: npc_generation_request_handler enters get_services *)
DaprReceive(h, event) ==
    /\ Ready(h)
    /\ hs' = [hs EXCEPT ![h] = Received(event, <<>>)]
    /\ served' = served + 1
    /\ UNCHANGED <<store, services, saved>>

(* "if <global> is None": the handling reads the global *)
TestHandle(h) ==
    /\ hs[h].pc = "get_services"
    /\ hs[h].handle <= Len(ServiceNames)
    /\ hs' = [hs EXCEPT ![h] =
                IF services[ServiceNames[hs[h].handle]]
                THEN [@ EXCEPT !.handle = @ + 1]
                ELSE [@ EXCEPT !.pc = "construct"]]
    /\ UNCHANGED <<store, services, served, saved>>

(* "<global> = Constructor()": the constructor returns and the global is   *)
(* assigned, or it raises and the exception leaves get_services for the    *)
(* handler's except block                                                  *)
ConstructHandle(h, ok) ==
    /\ hs[h].pc = "construct"
    /\ LET name == ServiceNames[hs[h].handle]
       IN  IF ok
           THEN /\ services' = [services EXCEPT ![name] = TRUE]
                /\ hs' = [hs EXCEPT ![h] =
                            [@ EXCEPT !.pc = "get_services", !.handle = @ + 1]]
           ELSE /\ services' = services
                /\ hs' = [hs EXCEPT ![h] =
                            StartHandling(hs[h], hs[h].event[1], name)]
    /\ UNCHANGED <<store, served, saved>>

(* "return openai_service, storage_service, dapr_client" and the handler   *)
(* up to generation                                                        *)
ReturnServices(h) ==
    /\ hs[h].pc = "get_services"
    /\ hs[h].handle > Len(ServiceNames)
    /\ hs' = [hs EXCEPT ![h] = StartHandling(hs[h], hs[h].event[1], "none")]
    /\ UNCHANGED <<store, services, served, saved>>

(* What one finished delivery of an envelope did *)
Summary(s) ==
    [oracle_calls |-> Len(s.oracle_calls), store_calls |-> Len(s.store_calls),
     generated |-> Len(s.npcs), stored |-> Len(s.individual_ids),
     published |-> Len(s.published), status |-> s.response[1].status]

(* The bus delivers the envelope again after the handler answered it with  *)
(* a status other than 2xx: the route runs from its entry on the same body *)
Redeliver(h) ==
    /\ hs[h].pc = "done"
    /\ IsAsync(hs[h])
    /\ hs[h].response[1].status # 200
    /\ Len(hs[h].history) + 1 < MaxDeliveries
    /\ hs' = [hs EXCEPT ![h] =
                Received(hs[h].event[1],
                         Append(hs[h].history, Summary(hs[h])))]
    /\ UNCHANGED <<store, services, served, saved>>

(* One generate_npc call made directly by a handler *)
GenerateNpc(h, reply) ==
    /\ hs[h].pc = "generate_npc"
    /\ LET r == generate_npc(reply)
           npc == r.value
           s == [hs[h] EXCEPT
                   !.oracle_calls = Append(@, Prompt(hs[h])),
                   !.oracle_misses =
                       IF ~r.raised /\ npc = None THEN @ + 1 ELSE @]
       IN  hs' = [hs EXCEPT ![h] =
                 IF r.raised THEN GenerationRaised(s, r.value.error)
                 ELSE IF IsAsync(s) THEN AfterGenerate(s, npc)
                 ELSE IF npc = None
                 THEN [s EXCEPT !.pc = "done",
                                !.response = Some(HttpError("Failed to generate NPC"))]
                 ELSE [s EXCEPT !.npcs = npc, !.pc = "save_npc"]]
    /\ UNCHANGED <<store, services, served, saved>>

(* One iteration of the loop of AzureOpenAIService.generate_multiple_npcs *)
GenerateMultipleStep(h, reply) ==
    /\ hs[h].pc = "generate_multiple_npcs"
    /\ hs[h].i < hs[h].count
    /\ LET r == generate_npc(reply)
           npc == r.value
           s == [hs[h] EXCEPT
                   !.oracle_calls = Append(@, Prompt(hs[h])),
                   !.oracle_misses =
                       IF ~r.raised /\ npc = None THEN @ + 1 ELSE @,
                   !.i = @ + 1]
           npcs == IF ~r.raised /\ npc # None THEN Append(s.npcs, npc[1])
                   ELSE s.npcs
       IN  hs' = [hs EXCEPT ![h] =
                 IF r.raised THEN GenerationRaised(s, r.value.error)
                 ELSE IF s.i < s.count THEN [s EXCEPT !.npcs = npcs]
                 ELSE AfterGenerate(s, npcs)]
    /\ UNCHANGED <<store, services, served, saved>>

(* The readings of datetime.now() the storage call of the handling makes   *)
(* before its insert_one: one in save_npc, two in save_npcs_collection     *)
ClockReadings(s) ==
    CASE s.pc \in {"save_npc", "save_npcs_batch"} -> 1
      [] s.pc = "save_npcs_collection" -> 2
      [] OTHER -> 0

(* datetime.now() in save_npc or save_npcs_collection: the document under  *)
(* construction gets the time of this moment                               *)
DatetimeNow(h) ==
    /\ Len(hs[h].clock) < ClockReadings(hs[h])
    /\ hs' = [hs EXCEPT ![h].clock = Append(@, Now(store))]
    /\ UNCHANGED <<store, services, served, saved>>

(* insert_one of the save_npc called by generate_single_npc, and the       *)
(* handler's response                                                      *)
SaveNpc(h, accepted) ==
    /\ hs[h].pc = "save_npc"
    /\ Len(hs[h].clock) = 1
    /\ LET s == [hs[h] EXCEPT !.clock = <<>>]
           npc == s.npcs[1]
           r == save_npc(store, npc, hs[h].clock[1], accepted)
       IN  /\ store' = r.store
           /\ saved' = IF r.npc_id # None THEN Append(saved, npc) ELSE saved
           /\ hs' = [hs EXCEPT ![h] =
                 [s EXCEPT
                    !.pc = "done",
                    !.store_calls = Append(@, StoreCall("save_npc", accepted)),
                    !.response =
                        IF r.npc_id = None THEN Some(HttpError(StoreError))
                        ELSE Some(HttpResponse(200,
                               [success |-> TRUE, npc |-> model_dump(npc),
                                saved_to |-> r.npc_id[1]]))]]
    /\ UNCHANGED <<services, served>>

(* save_npcs_batch leaving its loop at the first failed save *)
SaveBatchStep_BreakOnFailure(h, accepted) ==
    /\ hs[h].pc = "save_npcs_batch"
    /\ hs[h].k < Len(hs[h].npcs)
    /\ Len(hs[h].clock) = 1
    /\ LET s == [hs[h] EXCEPT
                   !.k = @ + 1,
                   !.store_calls = Append(@, StoreCall("save_npc", accepted)),
                   !.clock = <<>>]
           npc == s.npcs[s.k]
           now == hs[h].clock[1]
           r == IF IsAsync(s) THEN save_npc_pb(store, npc, now, accepted)
                ELSE save_npc(store, npc, now, accepted)
           saved_ids == IF r.npc_id # None
                        THEN Append(s.individual_ids, r.npc_id[1])
                        ELSE s.individual_ids
       IN  /\ store' = r.store
           /\ saved' = IF r.npc_id # None THEN Append(saved, npc) ELSE saved
           /\ hs' = [hs EXCEPT ![h] =
                 IF s.k < Len(s.npcs) /\ accepted
                 THEN [s EXCEPT !.individual_ids = saved_ids]
                 ELSE AfterBatch(s, saved_ids)]
    /\ UNCHANGED <<services, served>>

(* save_npcs_batch keeping its id list in the service object, which the    *)
(* handlings share, instead of a local: the list holds the ids of all the  *)
(* individual documents written so far                                     *)
SaveBatchStep_SharedIdList(h, accepted) ==
    /\ hs[h].pc = "save_npcs_batch"
    /\ hs[h].k < Len(hs[h].npcs)
    /\ Len(hs[h].clock) = 1
    /\ LET s == [hs[h] EXCEPT
                   !.k = @ + 1,
                   !.store_calls = Append(@, StoreCall("save_npc", accepted)),
                   !.clock = <<>>]
           npc == s.npcs[s.k]
           now == hs[h].clock[1]
           r == IF IsAsync(s) THEN save_npc_pb(store, npc, now, accepted)
                ELSE save_npc(store, npc, now, accepted)
           saved_ids == [j \in 1..Len(FindIndividual(r.store)) |->
                            ObjectIdStr(FindIndividual(r.store)[j]["_id"])]
       IN  /\ store' = r.store
           /\ saved' = IF r.npc_id # None THEN Append(saved, npc) ELSE saved
           /\ hs' = [hs EXCEPT ![h] =
                 IF s.k < Len(s.npcs) THEN [s EXCEPT !.individual_ids = saved_ids]
                 ELSE AfterBatch(s, saved_ids)]
    /\ UNCHANGED <<services, served>>

(* One iteration of the loop of save_npcs_batch, from the insert_one of    *)
(* its save_npc call on                                                    *)
SaveBatchStep(h, accepted) ==
    /\ hs[h].pc = "save_npcs_batch"
    /\ hs[h].k < Len(hs[h].npcs)
    /\ Len(hs[h].clock) = 1
    /\ LET s == [hs[h] EXCEPT
                   !.k = @ + 1,
                   !.store_calls = Append(@, StoreCall("save_npc", accepted)),
                   !.clock = <<>>]
           npc == s.npcs[s.k]
           now == hs[h].clock[1]
           r == IF IsAsync(s) THEN save_npc_pb(store, npc, now, accepted)
                ELSE save_npc(store, npc, now, accepted)
           saved_ids == IF r.npc_id # None
                        THEN Append(s.individual_ids, r.npc_id[1])
                        ELSE s.individual_ids
       IN  /\ store' = r.store
           /\ saved' = IF r.npc_id # None THEN Append(saved, npc) ELSE saved
           /\ hs' = [hs EXCEPT ![h] =
                 IF s.k < Len(s.npcs) THEN [s EXCEPT !.individual_ids = saved_ids]
                 ELSE AfterBatch(s, saved_ids)]
    /\ UNCHANGED <<services, served>>

(* A handler that takes back the individual documents of the batch when    *)
(* the collection write fails                                              *)
SaveCollection_RollsBack(h, accepted) ==
    /\ hs[h].pc = "save_npcs_collection"
    /\ Len(hs[h].clock) = 2
    /\ LET s == [hs[h] EXCEPT
                   !.store_calls =
                       Append(@, StoreCall("save_npcs_collection", accepted)),
                   !.clock = <<>>]
           clock == hs[h].clock
           r == IF IsAsync(s)
                THEN save_npcs_collection_pb(store, s.npcs, clock, accepted)
                ELSE save_npcs_collection(store, s.npcs, clock, accepted)
       IN  /\ store' = IF r.collection_id # None THEN r.store
                       ELSE SelectSeq(store,
                                LAMBDA d : \A n \in 1..Len(s.individual_ids) :
                                    ObjectIdStr(d["_id"]) # s.individual_ids[n])
           /\ hs' = [hs EXCEPT ![h] = AfterCollection(s, r.collection_id)]
    /\ UNCHANGED <<services, served, saved>>

(* insert_one of save_npcs_collection and what the handler does with the   *)
(* outcome of the call                                                     *)
SaveCollection(h, accepted) ==
    /\ hs[h].pc = "save_npcs_collection"
    /\ Len(hs[h].clock) = 2
    /\ LET s == [hs[h] EXCEPT
                   !.store_calls =
                       Append(@, StoreCall("save_npcs_collection", accepted)),
                   !.clock = <<>>]
           clock == hs[h].clock
           r == IF IsAsync(s)
                THEN save_npcs_collection_pb(store, s.npcs, clock, accepted)
                ELSE save_npcs_collection(store, s.npcs, clock, accepted)
       IN  /\ store' = r.store
           /\ hs' = [hs EXCEPT ![h] = AfterCollection(s, r.collection_id)]
    /\ UNCHANGED <<services, served, saved>>

(* The handler publishing again when the bus did not take the envelope *)
Publish_RetryOnFailure(h, delivered) ==
    /\ hs[h].pc = "publish"
    /\ LET s == hs[h]
       IN  hs' = [hs EXCEPT ![h] =
                 [s EXCEPT
                    !.pc = IF delivered THEN "done" ELSE "publish",
                    !.published = Append(@, PublishAttempt(s.response_topic[1],
                                      s.request_id[1], s.pending[1], delivered)),
                    !.response = Some(HttpResponse(200,
                        [status |-> "processed", request_id |-> s.request_id[1]]))]]
    /\ UNCHANGED <<store, services, served, saved>>

(* The handler publishes its response; a failed publish is only logged *)
Publish(h, delivered) ==
    /\ hs[h].pc = "publish"
    /\ LET s == hs[h]
       IN  hs' = [hs EXCEPT ![h] =
                 [s EXCEPT
                    !.pc = "done",
                    !.published = Append(@, PublishAttempt(s.response_topic[1],
                                      s.request_id[1], s.pending[1], delivered)),
                    !.response = Some(HttpResponse(200,
                        [status |-> "processed", request_id |-> s.request_id[1]]))]]
    /\ UNCHANGED <<store, services, served, saved>>

(* The except path once request_id and response_topic are known *)
PublishError(h, delivered) ==
    /\ hs[h].pc = "publish_error"
    /\ LET s == hs[h]
       IN  hs' = [hs EXCEPT ![h] =
                 [s EXCEPT
                    !.pc = "done",
                    !.published = Append(@, PublishAttempt(s.response_topic[1],
                                      s.request_id[1],
                                      FailureResponse(0, s.error[1]), delivered)),
                    !.response = Some(HttpError(s.error[1]))]]
    /\ UNCHANGED <<store, services, served, saved>>

----------------------------------------------------------------------------
(* Inputs *)

Counts == -1..MaxCount

FailAfter == {None} \cup {Some(n) : n \in 0..(MaxCount * MaxRequests)}

Events ==
    {ProtoEvent(TopicMessage("req-1", "reply-to", GenerationRequest(c, p))) :
        c \in Counts, p \in {NoPrefs}}
    \cup {JsonEvent([request_id |-> "req-2", response_topic |-> "reply-2",
                     count |-> MaxCount, species_preference |-> "Human"]),
          JsonEvent(<<>>),
          GarbageEvent}

Next ==
    \E h \in Handlers :
        \/ \E p \in PrefChoices : HttpGenerateSingle(h, p)
        \/ \E c \in Counts, p \in PrefChoices : HttpGenerateMultiple(h, c, p)
        \/ \E f \in FailAfter : HttpGetAllNpcs(h, f)
        \/ \E e \in Events : served < MaxRequests /\ DaprReceive(h, e)
        \/ TestHandle(h)
        \/ \E ok \in BOOLEAN : ConstructHandle(h, ok)
        \/ ReturnServices(h)
        \/ \E r \in OracleReplies : GenerateNpc(h, r)
        \/ \E r \in OracleReplies : GenerateMultipleStep(h, r)
        \/ DatetimeNow(h)
        \/ \E a \in BOOLEAN : SaveNpc(h, a)
        \/ \E a \in BOOLEAN : SaveBatchStep(h, a)
        \/ \E a \in BOOLEAN : SaveCollection(h, a)
        \/ \E d \in BOOLEAN : Publish(h, d)
        \/ \E d \in BOOLEAN : PublishError(h, d)

Spec == Init /\ [][Next]_vars

(* The synchronous service alone (app.py), all its routes.  The            *)
(* preferences of a request reach only the prompt text, never the control  *)
(* flow of a handler, so the requests here carry none.                     *)
HttpNext ==
    \E h \in Handlers :
        \/ HttpGenerateSingle(h, NoPrefs)
        \/ \E c \in Counts : HttpGenerateMultiple(h, c, NoPrefs)
        \/ \E f \in FailAfter : HttpGetAllNpcs(h, f)
        \/ HttpGetStorageStats(h)
        \/ \E ok \in BOOLEAN : CountStep(h, ok)
        \/ HttpNotFound(h)
        \/ \E r \in OracleReplies : GenerateNpc(h, r)
        \/ \E r \in OracleReplies : GenerateMultipleStep(h, r)
        \/ DatetimeNow(h)
        \/ \E a \in BOOLEAN : SaveNpc(h, a)
        \/ \E a \in BOOLEAN : SaveBatchStep(h, a)
        \/ \E a \in BOOLEAN : SaveCollection(h, a)

HttpStep ==
    \E h \in Handlers :
        \/ \E ok \in BOOLEAN : CountStep(h, ok)
        \/ \E r \in OracleReplies : GenerateNpc(h, r)
        \/ \E r \in OracleReplies : GenerateMultipleStep(h, r)
        \/ DatetimeNow(h)
        \/ \E a \in BOOLEAN : SaveNpc(h, a)
        \/ \E a \in BOOLEAN : SaveBatchStep(h, a)
        \/ \E a \in BOOLEAN : SaveCollection(h, a)

HttpSpec == Init /\ [][HttpNext]_vars

(* A started view function runs to its return statement as long as the    *)
(* oracle and store calls it makes return or fail: its worker thread waits *)
(* on nothing else                                                         *)
HttpFairSpec == HttpSpec /\ WF_vars(HttpStep)

(* The prompt builder on its own: generate_npc_prompt called on every      *)
(* combination of preferences, absent, empty or given                      *)
PrefValues == {None, Some(""), Some("Elf"), Some("20-30")}

AllPrefs ==
    [species_preference : PrefValues, district_preference : PrefValues,
     age_range : PrefValues]

PromptInit ==
    /\ store = <<>>
    /\ services = NoServices
    /\ served = 0
    /\ saved = <<>>
    /\ hs \in [Handlers ->
                {[IdleState EXCEPT !.handler = "generate_npc_prompt",
                                   !.prefs = p] : p \in AllPrefs}]

BuildPrompt(h) ==
    /\ hs[h].handler = "generate_npc_prompt"
    /\ Len(hs[h].prompts) < MaxPrompts
    /\ hs' = [hs EXCEPT ![h].prompts = Append(@, Prompt(hs[h]))]
    /\ UNCHANGED <<store, services, served, saved>>

PromptNext == \E h \in Handlers : BuildPrompt(h)

PromptSpec == PromptInit /\ [][PromptNext]_vars

(* The parsing half of generate_npc on its own: the oracle returned a      *)
(* payload, bare or between an opening fence with a language tag and a     *)
(* closing fence, with or without whitespace around each                   *)
Payloads ==
    {<<Doc(AnnData)>>, <<Doc(BoData)>>,
     <<Doc([AnnData EXCEPT !.Age = "s:30"])>>,
     <<Doc(BoData @@ [Mood |-> "s:Ann"])>>,
     <<Doc(Without(AnnData, "Species"))>>,
     <<Doc([AnnData EXCEPT !.ResidentDistrict = JsonNull])>>,
     <<ArrayDoc>>}

Ws(n) == [j \in 1..n |-> Tok("ws")]

Padded(payload, before, after) == Ws(before) \o payload \o Ws(after)

(* The language tag of an opening fence: json, another language (python,   *)
(* JSON), or one that begins with json (jsonc, json5)                      *)
JsonTag == <<Tok("json")>>
OtherTag == <<Tok("tag")>>
JsonPrefixedTag == <<Tok("json"), Tok("text")>>
LanguageTags == {JsonTag, OtherTag, JsonPrefixedTag}

Fenced(tag, payload, before, inner1, inner2, after) ==
    Ws(before) \o <<Tok("fence")>> \o tag \o Ws(inner1) \o payload
    \o Ws(inner2) \o <<Tok("fence")>> \o Ws(after)

Contents ==
    {Padded(p, a, d) : p \in Payloads, a \in 0..MaxWs, d \in 0..MaxWs}
    \cup {Fenced(g, p, a, b, c, d) :
             g \in LanguageTags, p \in Payloads, a \in 0..MaxWs,
             b \in 0..MaxWs, c \in 0..MaxWs, d \in 0..MaxWs}

ParseInit ==
    /\ store = <<>>
    /\ services = NoServices
    /\ served = 0
    /\ saved = <<>>
    /\ hs \in [Handlers ->
                {[IdleState EXCEPT !.handler = "generate_npc",
                                   !.reply = Some(Reply(c))] : c \in Contents}]

(* generate_npc from the oracle's return to its own: the cleaned content   *)
(* is kept in pending, the record (if any) in npcs                         *)
ParseReply(h) ==
    /\ hs[h].handler = "generate_npc"
    /\ hs[h].pc = "idle"
    /\ LET npc == generate_npc(hs[h].reply[1]).value
       IN  hs' = [hs EXCEPT ![h] =
                    [@ EXCEPT !.pc = "done",
                              !.pending = Some(StripFences(hs[h].reply[1].content)),
                              !.npcs = npc,
                              !.oracle_misses = IF npc = None THEN 1 ELSE 0]]
    /\ UNCHANGED <<store, services, served, saved>>

ParseNext == \E h \in Handlers : ParseReply(h)

ParseSpec == ParseInit /\ [][ParseNext]_vars

(* The asynchronous service on its bus: every envelope is delivered, and   *)
(* delivered again when the handler answered with an error status          *)
BusNext ==
    \E h \in Handlers :
        \/ \E e \in Events : served < MaxRequests /\ DaprReceive(h, e)
        \/ Redeliver(h)
        \/ TestHandle(h)
        \/ \E ok \in BOOLEAN : ConstructHandle(h, ok)
        \/ ReturnServices(h)
        \/ \E r \in OracleReplies : GenerateNpc(h, r)
        \/ \E r \in OracleReplies : GenerateMultipleStep(h, r)
        \/ DatetimeNow(h)
        \/ \E a \in BOOLEAN : SaveBatchStep(h, a)
        \/ \E a \in BOOLEAN : SaveCollection(h, a)
        \/ \E d \in BOOLEAN : Publish(h, d)
        \/ \E d \in BOOLEAN : PublishError(h, d)

BusSpec == Init /\ [][BusNext]_vars

(* One envelope on the bus and its deliveries: the bus hands one event to  *)
(* the handler and hands it again, up to MaxDeliveries times in all, each  *)
(* time the handler answered anything but 200.                             *)
EnvelopeNext ==
    \E h \in Handlers :
        \/ \E e \in Events : served = 0 /\ DaprReceive(h, e)
        \/ Redeliver(h)
        \/ TestHandle(h)
        \/ \E ok \in BOOLEAN : ConstructHandle(h, ok)
        \/ ReturnServices(h)
        \/ \E r \in OracleReplies : GenerateNpc(h, r)
        \/ \E r \in OracleReplies : GenerateMultipleStep(h, r)
        \/ DatetimeNow(h)
        \/ \E a \in BOOLEAN : SaveBatchStep(h, a)
        \/ \E a \in BOOLEAN : SaveCollection(h, a)
        \/ \E d \in BOOLEAN : Publish(h, d)
        \/ \E d \in BOOLEAN : PublishError(h, d)

EnvelopeSpec == Init /\ [][EnvelopeNext]_vars

(* The two transports side by side: POST /generate-npcs is handled from an *)
(* empty store, then the asynchronous handler of a deployment whose store  *)
(* is as that request found it gets the same count and preferences in a    *)
(* protobuf envelope.  history keeps the finished first handling and the   *)
(* store it left.                                                          *)
SameRequestOnBus(h) ==
    /\ hs[h].pc = "done"
    /\ hs[h].handler = "generate_multiple_npcs"
    /\ LET event == ProtoEvent(TopicMessage("req-1", "reply-to",
                         GenerationRequest(hs[h].count, hs[h].prefs)))
       IN  hs' = [hs EXCEPT ![h] =
                    Received(event, <<[run |-> hs[h], store |-> store]>>)]
    /\ store' = <<>>
    /\ saved' = <<>>
    /\ UNCHANGED <<services, served>>

(* The service handles are constructed without fault on the bus side, as   *)
(* the synchronous service had them when it took the request               *)
TransportsNext ==
    \E h \in Handlers :
        \/ \E c \in Counts, p \in PrefChoices :
              hs[h].pc = "idle" /\ HttpGenerateMultiple(h, c, p)
        \/ SameRequestOnBus(h)
        \/ TestHandle(h)
        \/ ConstructHandle(h, TRUE)
        \/ ReturnServices(h)
        \/ \E r \in OracleReplies : GenerateNpc(h, r)
        \/ \E r \in OracleReplies : GenerateMultipleStep(h, r)
        \/ DatetimeNow(h)
        \/ \E a \in BOOLEAN : SaveBatchStep(h, a)
        \/ \E a \in BOOLEAN : SaveCollection(h, a)
        \/ \E d \in BOOLEAN : Publish(h, d)
        \/ \E d \in BOOLEAN : PublishError(h, d)

TransportsSpec == Init /\ [][TransportsNext]_vars

(* get_services in a process whose worker threads handle bus events at     *)
(* the same time, one event each                                           *)
ThreadsInit ==
    /\ store = <<>>
    /\ services = NoServices
    /\ hs = [t \in Threads |-> IdleState]
    /\ served = 0
    /\ saved = <<>>

ServicesNext ==
    \E t \in Threads :
        \/ \E e \in Events : hs[t].pc = "idle" /\ DaprReceive(t, e)
        \/ TestHandle(t)
        \/ \E ok \in BOOLEAN : ConstructHandle(t, ok)
        \/ ReturnServices(t)

ServicesSpec == ThreadsInit /\ [][ServicesNext]_vars

(* Generation requests handled at the same time: each worker thread takes  *)
(* one request, POST /generate-npcs or a bus event, and the steps of the   *)
(* handlings interleave on the one store                                   *)
ThreadGenerateMultiple(t, count, prefs) ==
    /\ hs[t].pc = "idle"
    /\ hs' = [hs EXCEPT ![t] =
                EnterGenerateMultiple(
                    [IdleState EXCEPT !.handler = "generate_multiple_npcs",
                                      !.count = count, !.prefs = prefs])]
    /\ served' = served + 1
    /\ UNCHANGED <<store, services, saved>>

ConcurrentEvents ==
    {ProtoEvent(TopicMessage("req-1", "reply-to", GenerationRequest(c, NoPrefs))) :
        c \in 1..MaxCount}

(* The oracle returns one of two valid records *)
ValidReplies == {Reply(<<Doc(AnnData)>>), Reply(<<Doc(BoData)>>)}

(* What the oracle may do on a call of thread t: return a record or a text *)
(* that is no record, or raise.  The request of thread t1 gets either      *)
(* record on each call, the other request the second record only: equal    *)
(* and different records of the two requests meet in the store, and a      *)
(* record or a document attributed to the wrong request shows.             *)
RecordsFor(t) ==
    IF t = "t1" THEN ValidReplies ELSE {Reply(<<Doc(BoData)>>)}

ConcurrentReplies(t) ==
    RecordsFor(t) \cup {Reply(<<Tok("text")>>), OracleFault, OracleJsonFault}

(* Every step of every handling may be followed by a step of the other     *)
(* thread; the constructors, the store and the bus answer either way       *)
ConcurrentNext ==
    \E t \in Threads :
        \/ \E c \in 1..MaxCount : ThreadGenerateMultiple(t, c, NoPrefs)
        \/ \E e \in ConcurrentEvents : hs[t].pc = "idle" /\ DaprReceive(t, e)
        \/ TestHandle(t)
        \/ \E ok \in BOOLEAN : ConstructHandle(t, ok)
        \/ ReturnServices(t)
        \/ \E r \in ConcurrentReplies(t) : GenerateNpc(t, r)
        \/ \E r \in ConcurrentReplies(t) : GenerateMultipleStep(t, r)
        \/ DatetimeNow(t)
        \/ \E a \in BOOLEAN : SaveBatchStep(t, a)
        \/ \E a \in BOOLEAN : SaveCollection(t, a)
        \/ \E d \in BOOLEAN : Publish(t, d)
        \/ \E d \in BOOLEAN : PublishError(t, d)

ConcurrentSpec == ThreadsInit /\ [][ConcurrentNext]_vars

(* GET /storage-stats while another worker thread handles a generation    *)
(* request: one generation request in the process, statistics requests     *)
(* beside it                                                               *)
StatsNext ==
    \E t \in Threads :
        \/ hs[t].pc = "idle" /\ HttpGetStorageStats(t)
        \/ \E ok \in BOOLEAN : CountStep(t, ok)
        \/ \E c \in 1..MaxCount :
              /\ \A u \in Threads : hs[u].handler # "generate_multiple_npcs"
              /\ ThreadGenerateMultiple(t, c, NoPrefs)
        \/ \E r \in ValidReplies : GenerateMultipleStep(t, r)
        \/ DatetimeNow(t)
        \/ \E a \in BOOLEAN : SaveBatchStep(t, a)
        \/ \E a \in BOOLEAN : SaveCollection(t, a)

StatsSpec == ThreadsInit /\ [][StatsNext]_vars

(* Envelope decoding on its own: the handler receives one body, JSON with  *)
(* any subset of its six keys, the protobuf message of the same content,   *)
(* or a body both decoders accept, and extracts the request from it        *)
JsonValues ==
    [request_id |-> "req-2", response_topic |-> "reply-2", count |-> MaxCount,
     species_preference |-> "Human", district_preference |-> "Docks",
     age_range |-> "20-30"]

JsonBodies == {[k \in keys |-> JsonValues[k]] : keys \in SUBSET DOMAIN JsonValues}

(* A message none of whose fields is set: what ParseFromString reads from  *)
(* a body holding only fields the schema does not know                     *)
EmptyMessage == TopicMessage("", "", GenerationRequest(0, NoPrefs))

ProtoMessages ==
    {TopicMessage(r, t, GenerationRequest(c, p)) :
        r \in {"req-2", Uuid4}, t \in {"reply-2", RESPONSE_TOPIC},
        c \in {1, MaxCount},
        p \in [species_preference : {None, Some("Human")},
               district_preference : {None, Some("Docks")},
               age_range : {None, Some("20-30")}]}

DecodeEvents ==
    {JsonEvent(j) : j \in JsonBodies}
    \cup {ProtoEvent(m) : m \in ProtoMessages}
    \cup {BothEvent(EmptyMessage, [request_id |-> "req-2", count |-> MaxCount]),
          GarbageEvent}

DecodeNext ==
    \E h \in Handlers :
        \/ \E e \in DecodeEvents : served < MaxRequests /\ DaprReceive(h, e)
        \/ TestHandle(h)
        \/ ConstructHandle(h, TRUE)
        \/ ReturnServices(h)

DecodeSpec == Init /\ [][DecodeNext]_vars

----------------------------------------------------------------------------
(* Vocabulary of the properties *)

(* The handling is inside get_services (dapr_app.py 66-77) *)
InGetServices(s) == s.pc \in {"get_services", "construct"}

(* A record with all six character fields present and non-null *)
CompleteRecord(r) ==
    \A f \in Fields : f \in DOMAIN r /\ r[f] # JsonNull

(* The handling runs the generation pipeline (the envelope was decoded) *)
Generates(s) ==
    \/ s.handler \in {"generate_single_npc", "generate_multiple_npcs"}
    \/ IsAsync(s) /\ s.request_id # None

(* The handling generates through AzureOpenAIService.generate_multiple_npcs *)
UsesGenerateMultiple(s) ==
    \/ s.handler = "generate_multiple_npcs"
    \/ IsAsync(s) /\ s.request_id # None /\ s.count # 1

(* Generation has returned to the handler *)
PastGeneration(s) ==
    Generates(s) /\ s.pc \notin {"idle", "generate_npc", "generate_multiple_npcs"}

(* generate_npc raised out of its JSONDecodeError handler and the          *)
(* exception left generation                                               *)
GenerationFailed(s) == s.error = Some(UnboundContent)

(* The handling has ended, or only the publish of its outcome is left *)
Settled(s) == s.pc \in {"done", "publish", "publish_error"}

CallsTo(s, op) == SelectSeq(s.store_calls, LAMBDA c : c.op = op)

Accepted(calls) == SelectSeq(calls, LAMBDA c : c.ok)

DocsOfType(st, type) == SelectSeq(st, LAMBDA d : d["_type"] = type)

Range(seq) == {seq[j] : j \in 1..Len(seq)}

----------------------------------------------------------------------------
(* C1 as stated: whatever the oracle does on each call, a raised fault     *)
(* included, generate_multiple_npcs with count = n >= 1 returns a list: it *)
(* holds (and returns) at most as many records as calls made, hence        *)
(* 0 <= k <= n, and every record has its six fields present and non-null.  *)
C1_GenerateManyBounded ==
    \A h \in Handlers :
        LET s == hs[h]
        IN  (UsesGenerateMultiple(s) /\ s.count >= 1) =>
                /\ ~GenerationFailed(s)
                /\ Len(s.npcs) + s.oracle_misses = s.i
                /\ s.i <= s.count
                /\ PastGeneration(s) => s.i = s.count
                /\ \A j \in 1..Len(s.npcs) : CompleteRecord(s.npcs[j])

(* C2: every individual document of the store, and every record embedded   *)
(* in a collection document, has the six character fields present and      *)
(* non-null: a reply that fails parsing or validation leaves nothing.      *)
C2_StoredRecordsComplete ==
    \A n \in 1..Len(store) :
        LET d == store[n]
        IN  IF d["_type"] = "individual" THEN CompleteRecord(d)
            ELSE /\ d["_type"] = "collection"
                 /\ \A j \in 1..Len(d["npcs"]) :
                        /\ CompleteRecord(d["npcs"][j])
                        /\ DOMAIN d["npcs"][j] = Fields

(* Both kinds of document are stored by a handling that discarded a reply *)
C2_Witness ==
    \E h \in Handlers :
        /\ hs[h].pc = "done"
        /\ hs[h].oracle_misses >= 1
        /\ DocsOfType(store, "individual") # <<>>
        /\ DocsOfType(store, "collection") # <<>>

(* C3 as stated: when generation yields no valid record, no store write is *)
(* attempted and the caller gets an overall failure: HTTP 500 with an      *)
(* error body on the synchronous endpoints; on the asynchronous transport  *)
(* an envelope with success = false, generated_count = 0 and the error     *)
(* "Failed to generate any NPCs", published to the request's               *)
(* response_topic under its request_id.                                    *)
C3_ZeroRecordsFail ==
    \A h \in Handlers :
        LET s == hs[h]
            failure == FailureResponse(s.count, "Failed to generate any NPCs")
        IN  (PastGeneration(s) /\ s.npcs = <<>>) =>
                /\ s.store_calls = <<>>
                /\ IF IsAsync(s)
                   THEN \/ /\ s.pc = "publish"
                           /\ s.pending = Some(failure)
                           /\ s.published = <<>>
                        \/ /\ s.pc = "done"
                           /\ Len(s.published) = 1
                           /\ s.published[1].topic_name = s.response_topic[1]
                           /\ s.published[1].data.request_id = s.request_id[1]
                           /\ s.published[1].data.response = failure
                           /\ failure.success = FALSE
                           /\ failure.generated_count = 0
                   ELSE /\ s.pc = "done"
                        /\ s.response # None
                        /\ s.response[1].status = 500
                        /\ DOMAIN s.response[1].body = {"error"}

(* C4: POST /generate-npcs with count = n >= 1, every oracle call giving a  *)
(* valid record and every store write accepted, answers 200 with           *)
(* generated_count = n, requested_count = n, n individual ids and the id   *)
(* of the collection document.                                             *)
C4_AllValidAllStored ==
    \A h \in Handlers :
        LET s == hs[h]
        IN  (/\ s.handler = "generate_multiple_npcs" /\ s.pc = "done"
             /\ s.count >= 1 /\ s.oracle_misses = 0 /\ ~GenerationFailed(s)
             /\ \A n \in 1..Len(s.store_calls) : s.store_calls[n].ok) =>
                /\ s.response # None
                /\ s.response[1].status = 200
                /\ LET body == s.response[1].body
                   IN  /\ body.success = TRUE
                       /\ body.generated_count = s.count
                       /\ body.requested_count = s.count
                       /\ Len(body.npcs) = s.count
                       /\ Len(body.individual_files) = s.count
                       /\ Cardinality(Range(body.individual_files)) = s.count
                       /\ \E n \in 1..Len(store) :
                            /\ ObjectIdStr(store[n]["_id"]) = body.collection_file
                            /\ store[n]["_type"] = "collection"

(* Such a request with the largest count has been answered *)
C4_Witness ==
    \E h \in Handlers :
        /\ hs[h].handler = "generate_multiple_npcs" /\ hs[h].pc = "done"
        /\ hs[h].count = MaxCount /\ hs[h].oracle_misses = 0
        /\ Len(hs[h].store_calls) = MaxCount + 1
        /\ \A n \in 1..Len(hs[h].store_calls) : hs[h].store_calls[n].ok

(* The collection_file a settled asynchronous handling reports *)
ReportedCollection(s) ==
    IF s.pc = "publish" THEN s.pending[1].collection_file
    ELSE s.published[1].data.response.collection_file

(* C5 as stated: on both transports a collection write happens exactly     *)
(* when the multi-record generation call yielded at least one record, so   *)
(* an asynchronous request with count >= 2 and one generated record still  *)
(* writes a collection document.                                           *)
C5_CollectionWheneverAnyRecord ==
    \A h \in Handlers :
        LET s == hs[h]
        IN  (UsesGenerateMultiple(s) /\ Settled(s)) =>
                (s.npcs # <<>> <=> CallsTo(s, "save_npcs_collection") # <<>>)

(* C5 amended: the collection write is attempted exactly when POST         *)
(* /generate-npcs generated at least one record, or the asynchronous       *)
(* handler generated at least two; then every record's individual write    *)
(* was attempted first, exactly one collection write is made, and if the   *)
(* store accepts it the id of the new collection document is reported.     *)
(* An asynchronous request that generated exactly one record writes no     *)
(* collection document and reports no collection id.                       *)
C5_CollectionWhenExpected ==
    \A h \in Handlers :
        LET s == hs[h]
            colls == CallsTo(s, "save_npcs_collection")
            expected == IF IsAsync(s) THEN Len(s.npcs) > 1
                        ELSE s.handler = "generate_multiple_npcs" /\ Len(s.npcs) >= 1
        IN  (Generates(s) /\ Settled(s)) =>
                /\ Len(colls) = IF expected THEN 1 ELSE 0
                /\ expected =>
                    /\ Len(CallsTo(s, "save_npc")) = Len(s.npcs)
                    /\ s.store_calls[Len(s.store_calls)].op = "save_npcs_collection"
                /\ (expected /\ colls[1].ok) =>
                    /\ s.collection_id # None
                    /\ \E n \in 1..Len(store) :
                         /\ ObjectIdStr(store[n]["_id"]) = s.collection_id[1]
                         /\ store[n]["_type"] = "collection"
                         /\ store[n]["npcs"] =
                                [j \in 1..Len(s.npcs) |-> model_dump(s.npcs[j])]
                    /\ IF IsAsync(s) THEN ReportedCollection(s) = s.collection_id
                       ELSE s.response[1].body.collection_file = s.collection_id[1]
                /\ (IsAsync(s) /\ Len(s.npcs) = 1) =>
                    /\ s.pc # "publish_error"
                    /\ ReportedCollection(s) = None

(* An asynchronous request for MaxCount records generated one, stored it   *)
(* and answered success without any collection write                       *)
C5_Witness ==
    \E h \in Handlers :
        /\ IsAsync(hs[h]) /\ hs[h].pc = "done"
        /\ hs[h].count = MaxCount
        /\ Len(hs[h].npcs) = 1
        /\ Len(hs[h].individual_ids) = 1
        /\ CallsTo(hs[h], "save_npcs_collection") = <<>>
        /\ Len(hs[h].published) = 1
        /\ hs[h].published[1].data.response.success
        /\ hs[h].published[1].data.response.collection_file = None

(* The records of the batch whose save was accepted, in order *)
AcceptedRecords(s) ==
    LET saves == CallsTo(s, "save_npc")
        idx == SelectSeq([j \in 1..Len(saves) |-> j], LAMBDA j : saves[j].ok)
    IN  [n \in 1..Len(idx) |-> s.npcs[idx[n]]]

(* The handling saves through save_npcs_batch and has entered it *)
InOrPastBatch(s) ==
    /\ PastGeneration(s) /\ s.handler # "generate_single_npc"
    /\ s.npcs # <<>>

(* C6: save_npcs_batch attempts one write per record, whatever writes the  *)
(* store rejects, never fails its caller, and returns exactly the ids of   *)
(* the accepted writes, in order.                                          *)
C6_BatchReturnsSuccesses ==
    \A h \in Handlers :
        LET s == hs[h]
            saves == CallsTo(s, "save_npc")
            ok_records == AcceptedRecords(s)
        IN  InOrPastBatch(s) =>
                /\ Len(saves) = s.k
                /\ s.pc # "save_npcs_batch" => s.k = Len(s.npcs)
                /\ Len(s.individual_ids) = Len(Accepted(saves))
                /\ \A n \in 1..Len(s.individual_ids) :
                     \E m \in 1..Len(store) :
                        /\ ObjectIdStr(store[m]["_id"]) = s.individual_ids[n]
                        /\ store[m]["_type"] = "individual"
                        /\ StripMetadata(store[m]) = model_dump(ok_records[n])
                /\ (s.pc = "publish_error" \/ (s.pc = "done" /\ s.response[1].status = 500)) =>
                     /\ CallsTo(s, "save_npcs_collection") # <<>>
                     /\ ~CallsTo(s, "save_npcs_collection")[1].ok

(* A batch whose first write was rejected went on and saved the last one *)
C6_Witness ==
    \E h \in Handlers :
        LET s == hs[h]
        IN  /\ InOrPastBatch(s) /\ s.pc # "save_npcs_batch"
            /\ Len(s.npcs) = MaxCount
            /\ ~s.store_calls[1].ok
            /\ s.store_calls[MaxCount].ok
            /\ Len(s.individual_ids) = Len(Accepted(CallsTo(s, "save_npc")))
            /\ Len(s.individual_ids) < MaxCount

(* C7: a failed save_npc of POST /generate-npc, or a failed                *)
(* save_npcs_collection of POST /generate-npcs, is answered with HTTP 500  *)
(* carrying the failure message, never with a success.                     *)
C7_FailedWriteIsHttp500 ==
    \A h \in Handlers :
        LET s == hs[h]
            last == s.store_calls[Len(s.store_calls)]
        IN  (/\ s.handler \in {"generate_single_npc", "generate_multiple_npcs"}
             /\ s.pc = "done" /\ s.store_calls # <<>>
             /\ ~last.ok
             /\ last.op = IF s.handler = "generate_single_npc" THEN "save_npc"
                          ELSE "save_npcs_collection") =>
                /\ s.response = Some(HttpError(StoreError))
                /\ s.response[1].status = 500
                /\ s.response[1].body.error = StoreError

(* POST /generate-npcs stored its records and then lost the collection write *)
C7_Witness ==
    \E h \in Handlers :
        LET s == hs[h]
        IN  /\ s.handler = "generate_multiple_npcs" /\ s.pc = "done"
            /\ s.individual_ids # <<>>
            /\ s.store_calls # <<>>
            /\ s.store_calls[Len(s.store_calls)] = StoreCall("save_npcs_collection", FALSE)
            /\ s.response[1].status = 500

(* The handling is a finished GET /npcs; its listing *)
Listed(s) == s.response[1].body.npcs
ListingDone(s) == s.handler = "get_all_npcs" /\ s.pc = "done"
ReadFailed(s) == ~s.store_calls[1].ok

(* C8: get_all_npcs never returns a collection-kind entry, whatever the    *)
(* store holds: every returned element is an individual document of the    *)
(* store without its metadata, and when the read does not fail every       *)
(* individual document is returned, once.                                  *)
C8_ListAllOnlyIndividuals ==
    \A h \in Handlers :
        LET s == hs[h]
            individuals == DocsOfType(store, "individual")
            collections == DocsOfType(store, "collection")
        IN  ListingDone(s) =>
                /\ \A j \in 1..Len(Listed(s)) :
                     /\ \E n \in 1..Len(individuals) :
                            Listed(s)[j] = Pop(Pop(Pop(individuals[n], "_type"),
                                               "_created_at"), "_id")
                     /\ \A n \in 1..Len(collections) :
                            Listed(s)[j] # Pop(Pop(Pop(collections[n], "_type"),
                                               "_created_at"), "_id")
                     /\ DOMAIN Listed(s)[j] \cap {"npcs", "count", "generated_at"} = {}
                /\ ~ReadFailed(s) =>
                     /\ Len(Listed(s)) = Len(individuals)
                     /\ \A n \in 1..Len(individuals) :
                            Listed(s)[n] = Pop(Pop(Pop(individuals[n], "_type"),
                                               "_created_at"), "_id")
                /\ s.response[1].body.count = Len(Listed(s))

(* A listing read from a store holding individual documents and at least   *)
(* as many collection documents                                            *)
C8_Witness ==
    \E h \in Handlers :
        /\ ListingDone(hs[h]) /\ ~ReadFailed(hs[h])
        /\ Len(DocsOfType(store, "individual")) >= 1
        /\ Len(DocsOfType(store, "collection")) >= Len(DocsOfType(store, "individual"))
        /\ Len(Listed(hs[h])) = Len(DocsOfType(store, "individual"))
        /\ Len(Listed(hs[h])) < Len(store)

(* C9 as stated: when the read fails at any point, also after the cursor   *)
(* has yielded documents, get_all_npcs does not raise and returns an empty *)
(* sequence.                                                               *)
C9_ReadFailureReturnsEmpty ==
    \A h \in Handlers :
        (ListingDone(hs[h]) /\ ReadFailed(hs[h])) =>
            /\ hs[h].response[1].status = 200
            /\ Listed(hs[h]) = <<>>

(* C10: every record whose save_npc call succeeded comes back from a       *)
(* get_all_npcs whose read does not fail as an element with exactly the    *)
(* six character fields, each equal to the saved record's.                 *)
C10_RoundTrip ==
    \A h \in Handlers :
        (ListingDone(hs[h]) /\ ~ReadFailed(hs[h])) =>
            \A n \in 1..Len(saved) :
                \E j \in 1..Len(Listed(hs[h])) :
                    /\ DOMAIN Listed(hs[h])[j] = Fields
                    /\ \A f \in Fields : Listed(hs[h])[j][f] = saved[n][f]

(* Two different records were saved and then listed *)
C10_Witness ==
    \E h \in Handlers :
        /\ ListingDone(hs[h]) /\ ~ReadFailed(hs[h])
        /\ Len(saved) = MaxCount
        /\ saved[1] # saved[MaxCount]
        /\ Len(Listed(hs[h])) = MaxCount

(* The handling is a finished GET /storage-stats *)
StatsDone(s) == s.handler = "get_storage_stats" /\ s.pc = "done"

(* C11: get_storage_stats never raises. GET /storage-stats is always       *)
(* answered 200 with the stats it returned: when every count query is      *)
(* answered, the number of documents of the store, the number of its      *)
(* individual documents and the number of its collection documents; when   *)
(* one of the count queries fails, the result {error: message}.            *)
C11_StatsNeverRaises ==
    \A h \in Handlers :
        LET s == hs[h]
            stats == s.response[1].body.stats
        IN  StatsDone(s) =>
                /\ s.response[1].status = 200
                /\ s.response[1].body.success = TRUE
                /\ IF \A q \in 1..Len(s.store_calls) : s.store_calls[q].ok
                   THEN /\ Len(s.store_calls) = 3
                        /\ stats.total_documents = Len(store)
                        /\ stats.individual_npcs =
                               Len(DocsOfType(store, "individual"))
                        /\ stats.collection_documents =
                               Len(DocsOfType(store, "collection"))
                        /\ stats.total_documents =
                               stats.individual_npcs + stats.collection_documents
                   ELSE /\ DOMAIN stats = {"error"}
                        /\ stats.error = StoreError

(* Stats were read from a store holding both kinds of document *)
C11_CountsReached ==
    \E h \in Handlers :
        /\ StatsDone(hs[h])
        /\ Len(hs[h].store_calls) = 3
        /\ \A q \in 1..3 : hs[h].store_calls[q].ok
        /\ hs[h].response[1].body.stats.individual_npcs = MaxCount
        /\ hs[h].response[1].body.stats.collection_documents = 1

(* Stats were asked of a non-empty store whose second count query failed,  *)
(* and the request was answered with the error-shaped result               *)
C11_Witness ==
    \E h \in Handlers :
        /\ StatsDone(hs[h])
        /\ Len(hs[h].store_calls) = 2
        /\ hs[h].store_calls[1].ok
        /\ ~hs[h].store_calls[2].ok
        /\ store # <<>>
        /\ hs[h].response[1].status = 200
        /\ hs[h].response[1].body.stats = [error |-> StoreError]

(* What the request body of an asynchronous handling declares under key,   *)
(* read from the body itself: a protobuf message always has the field, a   *)
(* JSON body may lack it, and then the handler's default stands in         *)
Declared(event, key, default) ==
    IF event.encoding = "protobuf" THEN event.message[key]
    ELSE IF key \in DOMAIN event.message THEN event.message[key]
    ELSE default

(* The handling is the asynchronous handler working on a decoded envelope *)
Handling(s) == IsAsync(s) /\ s.event # None /\ s.request_id # None

(* C12: every response envelope the asynchronous handler publishes,        *)
(* success or failure, carries the request_id of the inbound envelope and  *)
(* goes to that envelope's response_topic; a handling publishes at most    *)
(* once, so to no other topic; and when at least one valid record was      *)
(* generated and no exception escaped the store calls, the one envelope    *)
(* published has success = true.                                           *)
C12_Correlation ==
    \A h \in Handlers :
        LET s == hs[h]
        IN  IsAsync(s) =>
                /\ Len(s.published) <= 1
                /\ \A j \in 1..Len(s.published) :
                     /\ s.event # None /\ s.event[1].encoding # "garbage"
                     /\ s.published[j].data.request_id =
                            Declared(s.event[1], "request_id", Uuid4)
                     /\ s.published[j].topic_name =
                            Declared(s.event[1], "response_topic", RESPONSE_TOPIC)
                /\ (Handling(s) /\ s.pc = "done" /\ s.npcs # <<>> /\ s.error = None) =>
                     /\ Len(s.published) = 1
                     /\ s.published[1].data.response.success = TRUE
                     /\ s.published[1].data.response.generated_count = Len(s.npcs)

(* The envelope req-1 asking for one record got its record stored and a    *)
(* success envelope delivered to reply-to under req-1                      *)
C12_Witness ==
    \E h \in Handlers :
        LET s == hs[h]
        IN  /\ Handling(s) /\ s.pc = "done"
            /\ s.event[1] = ProtoEvent(TopicMessage("req-1", "reply-to",
                                           GenerationRequest(1, NoPrefs)))
            /\ Len(s.individual_ids) = 1
            /\ Len(s.published) = 1
            /\ s.published[1].delivered
            /\ s.published[1].topic_name = "reply-to"
            /\ s.published[1].data.request_id = "req-1"
            /\ s.published[1].data.response.success

(* The deliveries of the envelope of s, the current one last, and those of *)
(* them that ran the pipeline: made an oracle call or a store write        *)
Deliveries(s) ==
    Append(s.history,
           [oracle_calls |-> Len(s.oracle_calls),
            store_calls |-> Len(s.store_calls),
            generated |-> Len(s.npcs), stored |-> Len(s.individual_ids),
            published |-> Len(s.published), status |-> 0])

PipelineRuns(s) ==
    SelectSeq(Deliveries(s), LAMBDA d : d.oracle_calls > 0 \/ d.store_calls > 0)

(* C13 as stated: counting every delivery of an envelope by the bus, also  *)
(* a redelivery after the handler answered with an error status, the       *)
(* pipeline of oracle calls and store writes runs for the envelope only    *)
(* once: no second delivery generates or stores its records again.         *)
C13_PipelineOncePerEnvelope ==
    \A h \in Handlers :
        (IsAsync(hs[h]) /\ hs[h].event # None) =>
            Len(PipelineRuns(hs[h])) <= 1

(* The request body of the asynchronous handling is neither form *)
Undecodable(s) ==
    IsAsync(s) /\ s.event # None /\ s.event[1].encoding = "garbage"

(* C14: for an envelope that decodes neither as protobuf nor as JSON the   *)
(* asynchronous handler records the failure (the logged exception, also    *)
(* the body of its 500 answer), publishes nothing, and makes no oracle     *)
(* call and no store write.                                                *)
C14_UndecodableDropped ==
    \A h \in Handlers :
        LET s == hs[h]
        IN  Undecodable(s) =>
                /\ ~InGetServices(s) =>
                       /\ s.pc = "done"
                       /\ s.error # None
                       /\ s.response = Some(HttpError(s.error[1]))
                /\ s.request_id = None /\ s.response_topic = None
                /\ s.published = <<>>
                /\ s.oracle_calls = <<>>
                /\ s.store_calls = <<>>
                /\ s.npcs = <<>>

(* An undecodable body reached the decoding step and was dropped there *)
C14_Witness ==
    \E h \in Handlers :
        /\ Undecodable(hs[h])
        /\ hs[h].pc = "done"
        /\ hs[h].error = Some("DecodeError")
        /\ hs[h].published = <<>>
        /\ services = [n \in DOMAIN NoServices |-> TRUE]

(* An exception escaped the try block of the asynchronous handler *)
Escaped(s) == IsAsync(s) /\ s.error # None

(* C15: when an exception escapes the pipeline of the asynchronous        *)
(* handler, one Failed envelope (success = false, error = the message of   *)
(* the exception, the request's request_id) is published to the request's  *)
(* response_topic if request_id and response_topic had been extracted, and *)
(* nothing is published otherwise; whether or not the bus takes that       *)
(* notification, the handler ends with its 500 answer carrying the         *)
(* original message.                                                       *)
C15_FailureNotice ==
    \A h \in Handlers :
        LET s == hs[h]
        IN  (Escaped(s) /\ s.pc = "done") =>
                /\ s.response = Some(HttpError(s.error[1]))
                /\ IF s.request_id # None /\ s.response_topic # None
                   THEN /\ Len(s.published) = 1
                        /\ s.published[1].topic_name = s.response_topic[1]
                        /\ s.published[1].data.request_id = s.request_id[1]
                        /\ s.published[1].data.response.success = FALSE
                        /\ s.published[1].data.response.error = s.error
                        /\ s.published[1].data.response.generated_count = 0
                        /\ s.published[1].data.response.npcs = <<>>
                   ELSE s.published = <<>>

(* save_npcs_collection raised after the envelope was read, and the bus    *)
(* refused the failure notification                                        *)
C15_Witness ==
    \E h \in Handlers :
        LET s == hs[h]
        IN  /\ Escaped(s) /\ s.pc = "done"
            /\ s.request_id = Some("req-1")
            /\ s.error = Some(StoreError)
            /\ s.individual_ids # <<>>
            /\ Len(s.published) = 1
            /\ ~s.published[1].delivered
            /\ s.response[1].status = 500

(* The handling is one of the synchronous HTTP endpoints *)
IsHttp(s) ==
    s.handler \in {"generate_single_npc", "generate_multiple_npcs",
                   "get_all_npcs", "get_storage_stats", "not_found"}

(* A success body, or the structured error body with status 500 or 404 *)
StructuredResponse(r) ==
    \/ r.status = 200 /\ "success" \in DOMAIN r.body /\ r.body.success = TRUE
    \/ r.status \in {500, 404} /\ DOMAIN r.body = {"error"}

HttpAnswered(s) == s.pc = "done" /\ s.response # None

(* C16: a request to a synchronous endpoint, whatever its oracle and store *)
(* calls return or fail with, is eventually answered; it has no response   *)
(* before its handler returns and one response from then on, and that      *)
(* response is a success body or the error body {error: ...} with status   *)
(* 500 or 404.                                                             *)
C16_HttpAlwaysAnswered ==
    /\ [](\A h \in Handlers :
            IsHttp(hs[h]) =>
                /\ (hs[h].response # None) <=> (hs[h].pc = "done")
                /\ hs[h].response # None => StructuredResponse(hs[h].response[1]))
    /\ \A h \in Handlers :
            (IsHttp(hs[h]) /\ hs[h].pc # "done")
                ~> (IsHttp(hs[h]) /\ HttpAnswered(hs[h]))

(* POST /generate-npcs was answered 500 after every oracle call failed,    *)
(* and after the store rejected the collection write                       *)
C16_Witness ==
    \E h \in Handlers :
        LET s == hs[h]
        IN  /\ s.handler = "generate_multiple_npcs" /\ HttpAnswered(s)
            /\ s.count = MaxCount
            /\ s.oracle_misses >= 1
            /\ s.store_calls # <<>>
            /\ ~s.store_calls[Len(s.store_calls)].ok
            /\ s.response[1].status = 500
            /\ DOMAIN s.response[1].body = {"error"}

(* The request body decodes, as protobuf or as JSON *)
Decodable(s) ==
    IsAsync(s) /\ s.event # None /\ s.event[1].encoding # "garbage"

(* The bus client could not be constructed *)
BusUnreachable(s) == s.error = Some(InitError("dapr_client"))

(* C17 as stated: the handling of a decodable envelope never ends without  *)
(* a publish of a result envelope (success or failure) to the declared     *)
(* destination, unless the bus is unreachable; a store or oracle fault,    *)
(* also one met when get_services first constructs the service handles,    *)
(* does not leave the request without any response.                        *)
C17_DecodableAlwaysAnswered ==
    \A h \in Handlers :
        LET s == hs[h]
        IN  (Decodable(s) /\ s.pc = "done" /\ ~BusUnreachable(s)) =>
                /\ Len(s.published) = 1
                /\ s.published[1].topic_name =
                       Declared(s.event[1], "response_topic", RESPONSE_TOPIC)

(* The handling generates through one direct call of generate_npc *)
UsesGenerateNpc(s) == Generates(s) /\ ~UsesGenerateMultiple(s)

(* C18 as stated: generate_multiple_npcs(count) makes one oracle call per  *)
(* loop iteration, each answered (a record or a miss) or failed before the *)
(* next is made, count calls in all when generation is over and none when  *)
(* count <= 0, whatever calls failed or gave malformed text: no early exit *)
(* and no retry.  A direct generate_npc makes exactly one oracle call.     *)
C18_OracleCallCount ==
    \A h \in Handlers :
        LET s == hs[h]
            calls == Len(s.oracle_calls)
        IN  /\ UsesGenerateMultiple(s) =>
                /\ calls = s.i
                /\ ~GenerationFailed(s) =>
                       Len(s.npcs) + s.oracle_misses = calls
                /\ s.pc = "generate_multiple_npcs" => calls < s.count
                /\ PastGeneration(s) =>
                       calls = IF s.count > 0 THEN s.count ELSE 0
            /\ UsesGenerateNpc(s) =>
                /\ calls = IF PastGeneration(s) THEN 1 ELSE 0
                /\ ~GenerationFailed(s) =>
                       Len(s.npcs) + s.oracle_misses = calls
            /\ \A n \in 1..calls : s.oracle_calls[n] = Prompt(s)

(* A preference was supplied: the request carries a value for it *)
Supplied(pref) == pref # None

(* ... and the value is not the empty string *)
Given(pref) == Supplied(pref) /\ pref[1] # ""

LinesOf(prompt, kind) == SelectSeq(prompt, LAMBDA l : l.line = kind)

(* The place of each kind of line in the fixed order of the prompt *)
Rank(kind) ==
    CASE kind = "base" -> 0
      [] kind = "Species should be" -> 1
      [] kind = "Resident District should be" -> 2
      [] kind = "Age should be in range" -> 3
      [] kind = "Return ONLY the JSON object" -> 4
      [] OTHER -> 5

(* C19 as stated: the prompt has the line "Species should be: X" /         *)
(* "Resident District should be: X" / "Age should be in range: X" if and   *)
(* only if the corresponding preference was supplied, so also for a        *)
(* preference supplied as the empty string.                                *)
C19_LineIffSupplied ==
    \A h \in Handlers :
        LET s == hs[h]
        IN  s.handler = "generate_npc_prompt" =>
                \A n \in 1..Len(s.prompts) :
                    LET prompt == s.prompts[n]
                        Line(kind, pref) ==
                            LinesOf(prompt, kind) =
                                IF Supplied(pref) THEN <<PromptLine(kind, pref[1])>>
                                ELSE <<>>
                    IN  /\ Line("Species should be", s.prefs.species_preference)
                        /\ Line("Resident District should be",
                                s.prefs.district_preference)
                        /\ Line("Age should be in range", s.prefs.age_range)

(* C19 amended: every prompt built from the same three preferences is the  *)
(* same prompt; it has the line "Species should be: X" / "Resident         *)
(* District should be: X" / "Age should be in range: X" exactly when that  *)
(* preference was supplied with a non-empty value X (a preference that is  *)
(* absent or the empty string gives no line); the lines present stand in   *)
(* the order species, district, age range after the fixed text, and the    *)
(* instruction to return only the JSON object is the last line.            *)
C19_PromptLines ==
    \A h \in Handlers :
        LET s == hs[h]
        IN  s.handler = "generate_npc_prompt" =>
                \A n \in 1..Len(s.prompts) :
                    LET prompt == s.prompts[n]
                        Line(kind, pref) ==
                            LinesOf(prompt, kind) =
                                IF Given(pref) THEN <<PromptLine(kind, pref[1])>>
                                ELSE <<>>
                    IN  /\ prompt = s.prompts[1]
                        /\ Line("Species should be", s.prefs.species_preference)
                        /\ Line("Resident District should be",
                                s.prefs.district_preference)
                        /\ Line("Age should be in range", s.prefs.age_range)
                        /\ prompt[1].line = "base"
                        /\ prompt[Len(prompt)].line = "Return ONLY the JSON object"
                        /\ \A i \in 1..Len(prompt), j \in 1..Len(prompt) :
                              i < j => Rank(prompt[i].line) < Rank(prompt[j].line)

(* The prompt was built MaxPrompts times for species Elf, an empty         *)
(* district and the age range 20-30: two constraint lines, in order        *)
C19_Witness ==
    \E h \in Handlers :
        LET s == hs[h]
        IN  /\ s.handler = "generate_npc_prompt"
            /\ s.prefs = [species_preference |-> Some("Elf"),
                          district_preference |-> Some(""),
                          age_range |-> Some("20-30")]
            /\ Len(s.prompts) = MaxPrompts
            /\ s.prompts[MaxPrompts] =
                   <<PromptLine("base", ""),
                     PromptLine("Species should be", "Elf"),
                     PromptLine("Age should be in range", "20-30"),
                     PromptLine("Return ONLY the JSON object", "")>>

(* The content the oracle returned to a finished generate_npc, and its result *)
Parsed(s) == s.handler = "generate_npc" /\ s.pc = "done"
ContentOf(s) == s.reply[1].content

(* C20 as stated: a payload between an opening fence with a language tag  *)
(* and a closing fence, with or without whitespace around the fences and   *)
(* the payload, gives generate_npc the result the bare payload gives (the  *)
(* same record, or the same failure); an unfenced payload comes out of the *)
(* stripping step as it went in, surrounding whitespace apart.             *)
C20_FencedParsesAsBare ==
    \A h \in Handlers :
        LET s == hs[h]
        IN  Parsed(s) =>
                \A p \in Payloads :
                    /\ (\E g \in LanguageTags : \E a, b, c, d \in 0..MaxWs :
                            ContentOf(s) = Fenced(g, p, a, b, c, d)) =>
                          /\ s.npcs = generate_npc(Reply(p)).value
                          /\ s.pending = Some(p)
                    /\ (\E a, d \in 0..MaxWs : ContentOf(s) = Padded(p, a, d)) =>
                          /\ s.pending = Some(p)
                          /\ s.npcs = generate_npc(Reply(p)).value

(* C20, amended: a payload between an opening fence tagged json and a      *)
(* closing fence, with or without whitespace around the fences and the     *)
(* payload, gives generate_npc the result the bare payload gives (the same *)
(* record, or the same failure).  Under any other language tag the opening *)
(* marker is not removed (of a tag that begins with json the rest stays),  *)
(* the cleaned content is not the payload and generate_npc gives no        *)
(* record, whatever the payload.  An unfenced payload comes out of the     *)
(* stripping step as it went in, surrounding whitespace apart.             *)
C20_JsonFencedParsesAsBare ==
    \A h \in Handlers :
        LET s == hs[h]
        IN  Parsed(s) =>
                \A p \in Payloads :
                    /\ (\E a, b, c, d \in 0..MaxWs :
                            ContentOf(s) = Fenced(JsonTag, p, a, b, c, d)) =>
                          /\ s.npcs = generate_npc(Reply(p)).value
                          /\ s.pending = Some(p)
                    /\ \A g \in LanguageTags \ {JsonTag} :
                          (\E a, b, c, d \in 0..MaxWs :
                              ContentOf(s) = Fenced(g, p, a, b, c, d)) =>
                            /\ s.npcs = None
                            /\ s.pending # Some(p)
                            /\ s.pending[1][1].t \in {"fence", "text"}
                    /\ (\E a, d \in 0..MaxWs : ContentOf(s) = Padded(p, a, d)) =>
                          /\ s.pending = Some(p)
                          /\ s.npcs = generate_npc(Reply(p)).value

(* A valid record came out of a json-fenced reply with a newline after the *)
(* opening fence and before the closing one                                *)
C20_Witness ==
    \E h \in Handlers :
        /\ Parsed(hs[h])
        /\ ContentOf(hs[h]) = Fenced(JsonTag, <<Doc(BoData)>>, 0, 1, 1, 0)
        /\ hs[h].npcs # <<>>
        /\ hs[h].npcs[1].Name = "s:Bo"
        /\ hs[h].npcs = generate_npc(Reply(<<Doc(BoData)>>)).value

(* The same valid payload under another language tag gave no record *)
C20_OtherTagReached ==
    \E h \in Handlers :
        /\ Parsed(hs[h])
        /\ ContentOf(hs[h]) = Fenced(OtherTag, <<Doc(BoData)>>, 0, 1, 1, 0)
        /\ hs[h].npcs = None
        /\ generate_npc(Reply(<<Doc(BoData)>>)).value # None

----------------------------------------------------------------------------
(* What the handler extracted from the envelope (dapr_app.py 138-140 and   *)
(* the fields of generation_request it goes on to read)                    *)
Extracted(s) == <<s.request_id, s.response_topic, s.count, s.prefs>>

(* The protobuf envelope with the content of a JSON body: each key of the  *)
(* body as the field of that name, the three documented defaults for the   *)
(* keys the body lacks, a preference set only when its key is there        *)
BinaryForm(json_data) ==
    ProtoEvent(
        TopicMessage(
            IF "request_id" \in DOMAIN json_data THEN json_data["request_id"]
            ELSE Uuid4,
            IF "response_topic" \in DOMAIN json_data
            THEN json_data["response_topic"] ELSE RESPONSE_TOPIC,
            GenerationRequest(
                IF "count" \in DOMAIN json_data THEN json_data["count"] ELSE 1,
                [species_preference |->
                    IF "species_preference" \in DOMAIN json_data
                    THEN Some(json_data["species_preference"]) ELSE None,
                 district_preference |->
                    IF "district_preference" \in DOMAIN json_data
                    THEN Some(json_data["district_preference"]) ELSE None,
                 age_range |->
                    IF "age_range" \in DOMAIN json_data
                    THEN Some(json_data["age_range"]) ELSE None])))

(* The handler's locals once it has gone through the body event with all   *)
(* three handles at hand                                                   *)
HandlingOf(event) ==
    StartHandling([IdleState EXCEPT !.handler = "npc_generation_request_handler",
                                    !.event = Some(event)],
                  event, "none")

(* C21: the protobuf decode is tried first and the JSON decode only when   *)
(* it fails: a body both decoders accept is read as protobuf, a protobuf   *)
(* body gives its own fields.  A JSON envelope gives the same request_id,  *)
(* response_topic, count and preferences, and the same next step, as the   *)
(* protobuf envelope of the same content, with request_id the generated    *)
(* token, response_topic the default topic and count 1 where the JSON body *)
(* lacks the key.                                                           *)
C21_JsonAsBinary ==
    \A h \in Handlers :
        LET s == hs[h]
            e == s.event[1]
        IN  (IsAsync(s) /\ ~InGetServices(s) /\ s.error = None) =>
                CASE e.encoding = "protobuf" ->
                        Extracted(s) =
                            <<Some(e.message.request_id),
                              Some(e.message.response_topic),
                              e.message.request.count, e.message.request.prefs>>
                  [] e.encoding = "both" ->
                        Extracted(s) =
                            <<Some(e.message.protobuf.request_id),
                              Some(e.message.protobuf.response_topic),
                              e.message.protobuf.request.count,
                              e.message.protobuf.request.prefs>>
                  [] e.encoding = "json" ->
                        /\ Extracted(s) = Extracted(HandlingOf(BinaryForm(e.message)))
                        /\ s.pc = HandlingOf(BinaryForm(e.message)).pc
                        /\ "request_id" \notin DOMAIN e.message =>
                               s.request_id = Some(Uuid4)
                        /\ "response_topic" \notin DOMAIN e.message =>
                               s.response_topic = Some(RESPONSE_TOPIC)
                        /\ "count" \notin DOMAIN e.message => s.count = 1
                  [] OTHER -> FALSE

(* A JSON body with only a district preference was decoded: the three      *)
(* defaults stand in and the one preference is set                         *)
C21_Witness ==
    \E h \in Handlers :
        LET s == hs[h]
        IN  /\ IsAsync(s) /\ s.event = Some(JsonEvent([district_preference |-> "Docks"]))
            /\ s.request_id = Some(Uuid4)
            /\ s.response_topic = Some(RESPONSE_TOPIC)
            /\ s.count = 1
            /\ s.prefs = [NoPrefs EXCEPT !.district_preference = Some("Docks")]
            /\ s.pc = "generate_npc"

(* A body both decoders accept was handled *)
C21_BothReached ==
    \E h \in Handlers :
        /\ IsAsync(hs[h]) /\ hs[h].event # None
        /\ hs[h].event[1].encoding = "both"
        /\ hs[h].request_id = Some("")

----------------------------------------------------------------------------
(* C22: every handling of an inbound envelope, the earlier deliveries of   *)
(* the envelope included, makes at most one publish_event call.  Once the  *)
(* call is made the handling is over whether or not the bus took the       *)
(* envelope (no retry); the call goes to the envelope's response_topic (no *)
(* other topic); and the one envelope is the result the main path built    *)
(* when no exception escaped, the error notice when one did, never both.   *)
C22_SinglePublishAttempt ==
    \A h \in Handlers :
        LET s == hs[h]
        IN  IsAsync(s) =>
                /\ Len(s.published) <= 1
                /\ \A n \in 1..Len(s.history) : s.history[n].published <= 1
                /\ s.published # <<>> =>
                     /\ s.pc = "done"
                     /\ s.published[1].topic_name = s.response_topic[1]
                     /\ IF s.error = None
                        THEN /\ s.published[1].data.response = s.pending[1]
                             /\ s.response[1].status = 200
                        ELSE /\ s.published[1].data.response =
                                    FailureResponse(0, s.error[1])
                             /\ s.response[1].status = 500

(* The bus refused the success envelope of a handling that stored its      *)
(* records: the handling ended after that one attempt                      *)
C22_Witness ==
    \E h \in Handlers :
        LET s == hs[h]
        IN  /\ IsAsync(s) /\ s.pc = "done"
            /\ s.individual_ids # <<>>
            /\ Len(s.published) = 1
            /\ ~s.published[1].delivered
            /\ s.published[1].data.response.success

(* The bus refused the error notice of a redelivered envelope *)
C22_ErrorNoticeRefused ==
    \E h \in Handlers :
        LET s == hs[h]
        IN  /\ IsAsync(s) /\ s.pc = "done" /\ s.error # None
            /\ s.history # <<>>
            /\ Len(s.published) = 1
            /\ ~s.published[1].delivered

----------------------------------------------------------------------------
(* What a finished handling reported to its caller: the records by their   *)
(* schema field names, the individual ids and the collection id            *)
HttpReport(s) ==
    LET r == s.response[1]
    IN  IF r.status = 200
        THEN [success |-> TRUE, npcs |-> r.body.npcs,
              individual_files |-> r.body.individual_files,
              collection_file |-> Some(r.body.collection_file), error |-> None]
        ELSE [success |-> FALSE, npcs |-> <<>>, individual_files |-> <<>>,
              collection_file |-> None, error |-> Some(r.body.error)]

BusReport(s) ==
    LET r == s.published[1].data.response
    IN  [success |-> r.success,
         npcs |-> [j \in 1..Len(r.npcs) |-> npc_to_dict(r.npcs[j])[1]],
         individual_files |-> r.individual_files,
         collection_file |-> r.collection_file, error |-> r.error]

(* The asynchronous handling of s has ended and follows a POST             *)
(* /generate-npcs of the same count and preferences                        *)
Compared(s) == IsAsync(s) /\ s.pc = "done" /\ s.history # <<>>

(* The oracle gave both handlings a and b the same records and as many     *)
(* failures, or made generate_npc raise at the same call, and the store    *)
(* gave the same answer to each write both made                            *)
SameBehaviour(a, b) ==
    /\ a.npcs = b.npcs
    /\ a.oracle_misses = b.oracle_misses
    /\ GenerationFailed(a) = GenerationFailed(b)
    /\ GenerationFailed(a) => Len(a.oracle_calls) = Len(b.oracle_calls)
    /\ \A n \in 1..Len(a.store_calls) :
          n <= Len(b.store_calls) => a.store_calls[n].ok = b.store_calls[n].ok

(* C23 as stated: for the same count and preferences and the same          *)
(* behaviour of the oracle and the store, POST /generate-npcs and the      *)
(* asynchronous handler make the same oracle calls and the same store      *)
(* writes, individual and collection, leave the same documents and report  *)
(* the same records, individual ids and collection id.                     *)
C23_SameOnBothTransports ==
    \A h \in Handlers :
        LET s == hs[h]
            a == s.history[1].run
        IN  (Compared(s) /\ SameBehaviour(a, s)) =>
                /\ s.oracle_calls = a.oracle_calls
                /\ s.store_calls = a.store_calls
                /\ store = s.history[1].store
                /\ BusReport(s) = HttpReport(a)

(* C23, amended: the two transports make the same oracle calls and the     *)
(* same individual writes; when the number of generated records is not     *)
(* one they also make the same collection write, leave the same documents  *)
(* and report the same records, ids and collection id (or the same         *)
(* failure).  When exactly one record was generated the asynchronous       *)
(* handler makes no collection write and reports the record and its id     *)
(* with no collection id, while POST /generate-npcs makes the write and    *)
(* reports the same plus the collection id, or a failure if the write      *)
(* failed.                                                                  *)
C23_SameUpToCollection ==
    \A h \in Handlers :
        LET s == hs[h]
            a == s.history[1].run
        IN  (Compared(s) /\ SameBehaviour(a, s)) =>
                /\ s.oracle_calls = a.oracle_calls
                /\ CallsTo(s, "save_npc") = CallsTo(a, "save_npc")
                /\ DocsOfType(store, "individual") =
                       DocsOfType(s.history[1].store, "individual")
                /\ IF Len(s.npcs) # 1
                   THEN /\ s.store_calls = a.store_calls
                        /\ store = s.history[1].store
                        /\ BusReport(s) = HttpReport(a)
                   ELSE /\ CallsTo(s, "save_npcs_collection") = <<>>
                        /\ Len(CallsTo(a, "save_npcs_collection")) = 1
                        /\ DocsOfType(store, "collection") = <<>>
                        /\ BusReport(s).success
                        /\ BusReport(s).collection_file = None
                        /\ IF CallsTo(a, "save_npcs_collection")[1].ok
                           THEN /\ HttpReport(a).collection_file # None
                                /\ [HttpReport(a) EXCEPT !.collection_file = None]
                                       = BusReport(s)
                           ELSE ~HttpReport(a).success

(* Both transports generated MaxCount records with preferences, stored     *)
(* them and the collection, and reported the same                          *)
C23_Witness ==
    \E h \in Handlers :
        LET s == hs[h]
            a == s.history[1].run
        IN  /\ Compared(s) /\ SameBehaviour(a, s)
            /\ s.prefs # NoPrefs
            /\ Len(s.npcs) = MaxCount
            /\ Len(s.individual_ids) = MaxCount
            /\ s.collection_id # None
            /\ BusReport(s) = HttpReport(a)
            /\ BusReport(s).success

(* Both transports generated one record of the MaxCount asked for *)
C23_OneRecordReached ==
    \E h \in Handlers :
        LET s == hs[h]
            a == s.history[1].run
        IN  /\ Compared(s) /\ SameBehaviour(a, s)
            /\ s.count = MaxCount /\ Len(s.npcs) = 1
            /\ HttpReport(a).success

----------------------------------------------------------------------------
(* Thread t calls the constructor of the handle it is at and assigns the   *)
(* global in this step (dapr_app.py 71, 73, 75)                            *)
Constructs(t) == hs[t].pc = "construct" /\ hs'[t].pc = "get_services"

(* The handling got its handles from get_services *)
HasHandles(s) ==
    IsAsync(s) /\ s.pc \notin {"idle", "get_services", "construct"}
    /\ (s.error = None \/ s.error = Some("DecodeError"))

(* C24 as stated: whatever the interleaving of the handlings, two first    *)
(* requests at the same time included, no handle is constructed when the   *)
(* process already has it, so each of the three is constructed at most     *)
(* once, and a handling that got its handles from get_services finds all   *)
(* three globals set.                                                      *)
C24_HandlesConstructedOnce ==
    [][/\ \A t \in DOMAIN hs :
            Constructs(t) => ~services[ServiceNames[hs[t].handle]]
       /\ \A t \in DOMAIN hs :
            HasHandles(hs'[t]) =>
                \A n \in 1..Len(ServiceNames) : services'[ServiceNames[n]]]_vars

----------------------------------------------------------------------------
(* The records of the individual documents of st *)
IndividualRecords(st) ==
    {StripMetadata(d) : d \in Range(DocsOfType(st, "individual"))}

(* C25: the individual writes and the collection write are separate        *)
(* inserts with nothing undoing them: no step of any handling removes or   *)
(* changes a document that is in the store, so the individual documents    *)
(* of a batch stay when its collection write fails, and a collection       *)
(* document stays when one of its records has no individual document.      *)
C25_NoCompensation ==
    [][/\ Len(store') >= Len(store)
       /\ \A n \in 1..Len(store) : store'[n] = store[n]]_vars

(* The collection write of a batch failed and the request was answered     *)
(* with an error: its individual documents are stored, no collection is    *)
C25_Witness ==
    \E h \in Handlers :
        LET s == hs[h]
        IN  /\ s.pc = "done"
            /\ Len(s.npcs) = MaxCount
            /\ Len(CallsTo(s, "save_npcs_collection")) = 1
            /\ ~CallsTo(s, "save_npcs_collection")[1].ok
            /\ s.response[1].status = 500
            /\ Len(DocsOfType(store, "individual")) = MaxCount
            /\ DocsOfType(store, "collection") = <<>>

(* The handler is between the individual writes and the collection write:  *)
(* what a process stopping here leaves                                     *)
C25_BetweenWritesReached ==
    \E h \in Handlers :
        /\ hs[h].pc = "save_npcs_collection"
        /\ DocsOfType(store, "individual") # <<>>
        /\ DocsOfType(store, "collection") = <<>>

(* A collection document is stored and the request answered while a        *)
(* record of the collection has no individual document                     *)
C25_CollectionOnlyReached ==
    \E h \in Handlers :
        /\ hs[h].pc = "done"
        /\ Len(hs[h].npcs) = MaxCount
        /\ Len(hs[h].individual_ids) < MaxCount
        /\ \E n \in 1..Len(store) :
              /\ store[n]["_type"] = "collection"
              /\ \E j \in 1..Len(store[n]["npcs"]) :
                    store[n]["npcs"][j] \notin IndividualRecords(store)

----------------------------------------------------------------------------
(* The ids the handling holds: those save_npcs_batch returned to it and    *)
(* the one save_npcs_collection returned                                   *)
OwnIds(s) ==
    Range(s.individual_ids)
    \cup (IF s.collection_id = None THEN {} ELSE {s.collection_id[1]})

(* The documents of st under those ids, in the order they were written *)
OwnDocs(s, st) == SelectSeq(st, LAMBDA d : ObjectIdStr(d["_id"]) \in OwnIds(s))

(* A document without what the store and the clock gave it: its id and    *)
(* its timestamps are those of the run, not of the request                 *)
Body(d) == Pop(Pop(Pop(d, "_id"), "_created_at"), "generated_at")

(* The store the writes of the handling leave when it runs alone on an     *)
(* empty store with the same records and the same answers of the store     *)
RECURSIVE AloneBatch(_, _, _)
AloneBatch(records, pb, st) ==
    IF records = <<>> THEN st
    ELSE AloneBatch(Tail(records), pb,
            IF pb THEN save_npc_pb(st, Head(records), Now(st), TRUE).store
            ELSE save_npc(st, Head(records), Now(st), TRUE).store)

AloneStore(s) ==
    LET batch == AloneBatch(AcceptedRecords(s), IsAsync(s), <<>>)
    IN  IF s.collection_id = None THEN batch
        ELSE LET clock == <<Now(batch), Now(batch)>>
             IN  IF IsAsync(s)
                 THEN save_npcs_collection_pb(batch, s.npcs, clock, TRUE).store
                 ELSE save_npcs_collection(batch, s.npcs, clock, TRUE).store

RECURSIVE AcceptedWrites(_)
AcceptedWrites(T) ==
    IF T = {} THEN 0
    ELSE LET t == CHOOSE x \in T : TRUE
         IN  Len(Accepted(hs[t].store_calls)) + AcceptedWrites(T \ {t})

(* C26: however the steps of the handlings interleave, clock readings and  *)
(* inserts included, and whatever the oracle, the store, the constructors  *)
(* and the bus answer, the store holds one document per accepted write of  *)
(* any handling (none lost, none twice); no id is held by two handlings;   *)
(* the documents under the ids a handling holds are the documents it       *)
(* leaves when run alone, in the same order, apart from the id and the     *)
(* timestamps, which are readings of the clock not later than the write;   *)
(* and a success response carries the records the handling itself          *)
(* generated and the ids it holds.                                         *)
C26_InterleavingHarmless ==
    /\ Len(store) = AcceptedWrites(DOMAIN hs)
    /\ \A n \in 1..Len(store) :
          /\ store[n]["_created_at"] \in 0..(n - 1)
          /\ store[n]["_type"] = "collection" =>
                /\ store[n]["generated_at"][1] = "iso"
                /\ store[n]["generated_at"][2] \in
                       store[n]["_created_at"]..(n - 1)
    /\ \A t \in DOMAIN hs :
          LET s == hs[t]
              own == OwnDocs(s, store)
              alone == AloneStore(s)
          IN  /\ \A u \in DOMAIN hs \ {t} : OwnIds(s) \cap OwnIds(hs[u]) = {}
              /\ Len(own) = Len(alone)
              /\ \A n \in 1..Len(own) : Body(own[n]) = Body(alone[n])
              /\ (s.pc = "done" /\ s.error = None /\ s.npcs # <<>>
                    /\ (IsAsync(s) \/ s.response[1].status = 200)) =>
                   LET report == IF IsAsync(s) THEN BusReport(s) ELSE HttpReport(s)
                   IN  /\ report.npcs = [j \in 1..Len(s.npcs) |-> model_dump(s.npcs[j])]
                       /\ report.individual_files = s.individual_ids
                       /\ report.collection_file = s.collection_id
                       /\ Len(own) = Len(Accepted(s.store_calls))

(* Two handlings, one per transport, have both ended with different        *)
(* records, their writes having alternated in the store, the third after a *)
(* clock reading that the second write made stale                          *)
C26_Witness ==
    \E t, u \in DOMAIN hs :
        /\ t # u
        /\ hs[t].pc = "done" /\ hs[u].pc = "done"
        /\ hs[t].handler = "generate_multiple_npcs" /\ IsAsync(hs[u])
        /\ hs[t].npcs # <<>> /\ hs[u].npcs # <<>>
        /\ hs[t].npcs # hs[u].npcs
        /\ Len(store) >= 3
        /\ ObjectIdStr(store[1]["_id"]) \in OwnIds(hs[t])
        /\ ObjectIdStr(store[2]["_id"]) \in OwnIds(hs[u])
        /\ ObjectIdStr(store[3]["_id"]) \in OwnIds(hs[t])
        /\ store[3]["_created_at"] = store[2]["_created_at"]

(* One request lost a write, a record and its response to faults while the *)
(* other was being handled                                                 *)
C26_FaultsReached ==
    \E t, u \in DOMAIN hs :
        /\ t # u
        /\ hs[t].pc = "done" /\ hs[u].pc = "done"
        /\ IsAsync(hs[t]) /\ hs[t].count = MaxCount
        /\ hs[t].oracle_misses = 1
        /\ \E n \in 1..Len(hs[t].store_calls) : ~hs[t].store_calls[n].ok
        /\ Len(hs[t].published) = 1 /\ ~hs[t].published[1].delivered
        /\ hs[u].individual_ids # <<>>
        /\ Len(store) >= 2

(* A collection document whose two timestamps differ: another request      *)
(* wrote between the two clock readings of save_npcs_collection            *)
C26_SplitTimestampsReached ==
    \E n \in 1..Len(store) :
        /\ store[n]["_type"] = "collection"
        /\ store[n]["generated_at"] # IsoFormat(store[n]["_created_at"])

----------------------------------------------------------------------------
(* The handling is a finished multi-record generation: POST /generate-npcs *)
(* or the asynchronous handler on a decoded envelope                       *)
MultiDone(s) ==
    /\ s.pc = "done"
    /\ s.handler = "generate_multiple_npcs" \/ (IsAsync(s) /\ s.request_id # None)

(* The counts of the response of such a handling, if it reports success *)
SuccessCounts(s) ==
    IF IsAsync(s)
    THEN LET r == s.published[1].data.response
         IN  [returned |-> Len(r.npcs), generated_count |-> r.generated_count,
              requested_count |-> r.requested_count,
              ids |-> Len(r.individual_files)]
    ELSE LET b == s.response[1].body
         IN  [returned |-> Len(b.npcs), generated_count |-> b.generated_count,
              requested_count |-> b.requested_count,
              ids |-> Len(b.individual_files)]

ReportsSuccess(s) ==
    IF IsAsync(s)
    THEN s.published # <<>> /\ s.published[1].data.response.success
    ELSE s.response[1].status = 200

(* No store call of the handling raised into the handler: save_npcs_batch  *)
(* swallows its failures, save_npcs_collection does not                    *)
NoExceptionEscaped(s) ==
    \A n \in 1..Len(s.store_calls) :
        s.store_calls[n].op = "save_npcs_collection" => s.store_calls[n].ok

(* C27: a success response of a multi-record generation, on either         *)
(* transport, returns generated_count records, with 1 <= generated_count   *)
(* <= requested_count and at most generated_count individual ids; and      *)
(* success is what is reported whenever at least one record was generated  *)
(* and no exception escaped, also when every individual write failed and   *)
(* the id list is empty.                                                    *)
C27_SuccessCounts ==
    \A h \in Handlers :
        LET s == hs[h]
        IN  MultiDone(s) =>
                /\ ReportsSuccess(s) =>
                     LET c == SuccessCounts(s)
                     IN  /\ c.returned = c.generated_count
                         /\ c.generated_count = Len(s.npcs)
                         /\ 1 <= c.generated_count
                         /\ c.generated_count <= c.requested_count
                         /\ c.requested_count = s.count
                         /\ c.ids <= c.generated_count
                         /\ c.ids = Len(Accepted(CallsTo(s, "save_npc")))
                /\ (s.npcs # <<>> /\ NoExceptionEscaped(s)) => ReportsSuccess(s)

(* The asynchronous handler reported success for MaxCount records none of  *)
(* which was stored individually                                           *)
C27_Witness ==
    \E h \in Handlers :
        LET s == hs[h]
        IN  /\ MultiDone(s) /\ IsAsync(s) /\ ReportsSuccess(s)
            /\ Len(s.npcs) = MaxCount
            /\ Len(CallsTo(s, "save_npc")) = MaxCount
            /\ Accepted(CallsTo(s, "save_npc")) = <<>>
            /\ SuccessCounts(s).ids = 0
            /\ SuccessCounts(s).generated_count = MaxCount

(* POST /generate-npcs did the same, generating fewer records than asked *)
C27_HttpNoIdsReached ==
    \E h \in Handlers :
        LET s == hs[h]
        IN  /\ MultiDone(s) /\ ~IsAsync(s) /\ ReportsSuccess(s)
            /\ s.count = MaxCount /\ Len(s.npcs) < MaxCount
            /\ SuccessCounts(s).ids = 0

----------------------------------------------------------------------------
(* C28 as stated: every result of get_storage_stats that is not the error  *)
(* dict has total_documents = individual_npcs + collection_documents, the  *)
(* store holding only documents this service wrote, also when another      *)
(* request inserts documents between the three count queries.              *)
C28_StatsAddUp ==
    \A t \in DOMAIN hs :
        (StatsDone(hs[t]) /\ "error" \notin DOMAIN hs[t].response[1].body.stats) =>
            LET stats == hs[t].response[1].body.stats
            IN  stats.total_documents =
                    stats.individual_npcs + stats.collection_documents

----------------------------------------------------------------------------
(* The handling reached the publish of its response (dapr_app.py 196-211) *)
ReachedPublish(s) == s.published # <<>> /\ s.error = None

(* C29 as stated: the asynchronous handler answers the bus 200 "processed" *)
(* exactly when it reached the publish of its response, whether records    *)
(* were generated or not and whether the bus took the response or not, and *)
(* 500 exactly when an exception escaped the pipeline; so every delivery   *)
(* that was followed by a redelivery had ended with an escaped exception,  *)
(* none with a generation failure or a lost response (a delivery that      *)
(* published an envelope and generated no record).                         *)
C29_AckUnlessException ==
    \A h \in Handlers :
        LET s == hs[h]
        IN  IsAsync(s) =>
                /\ s.pc = "done" =>
                     /\ s.response[1].status \in {200, 500}
                     /\ s.response[1].status = 200 <=> ReachedPublish(s)
                     /\ s.response[1].status = 500 <=> s.error # None
                     /\ ReachedPublish(s) =>
                            s.response[1].body =
                                [status |-> "processed",
                                 request_id |-> s.request_id[1]]
                /\ \A n \in 1..Len(s.history) :
                     /\ s.history[n].status = 500
                     /\ s.history[n].published = 0 \/ s.history[n].generated > 0

====
